---- MODULE Spec2Model ----
(***************************************************************************)
(* A model of the hotkey soundboard's playback/session core               *)
(* (src/src/contexts/AudioContext.tsx) and of the callers that decide     *)
(* which inputs reach it (AudioTrimEditor, HotKeyButton, AudioLibrary,    *)
(* PlaylistEditor, settingsService).                                      *)
(*                                                                         *)
(* Conventions                                                             *)
(*  - Times (duration, trims, positions) are integers in tenths of a      *)
(*    second, so the code's 0.1 s margin is Eps = 1.  Volumes are in      *)
(*    tenths as well (FullVolume = 10 is the code's volume 1).            *)
(*  - Identifiers are uuidv4() values in the code: never reused and       *)
(*    globally distinct.  Clip ids are 1.., playlist ids 101.., playlist  *)
(*    item ids 201..; NoId = 0 stands for null.                           *)
(*  - The arrays audioFiles and playlists are only read with find/map/    *)
(*    filter keyed by id, so they are functions from the ids present to   *)
(*    the records; playlist.items is an ordered sequence as in the code.  *)
(*  - One action is one event of the single-threaded event loop together  *)
(*    with the React render that follows it.  The state updaters          *)
(*    (setX(prev => ...)) of one event apply in call order to the latest  *)
(*    state; values read from a closure (audioFiles, playbackStatus,      *)
(*    playlists used outside an updater) are those of the render before   *)
(*    the event.                                                          *)
(*  - handlerFiles is the audioFiles array captured by the onEnded        *)
(*    handler: the effect that installs handleAudioEnded re-runs only     *)
(*    when playbackStatus or playlists change (deps at line 312), so the  *)
(*    playAudio it calls reads the audioFiles of that render.             *)
(*  - importBatch holds the files of the batch import in flight (the       *)
(*    promises of handleFileChange's Promise.all), each with the stage    *)
(*    its callbacks have reached.                                         *)
(*  - lastEvent is a history variable (the last event and the session     *)
(*    before it); no action reads it.                                     *)
(***************************************************************************)
EXTENDS Integers, Sequences, FiniteSets, TLC

\* ---------------------------------------------------------------- bounds
MaxClips == 2
MaxPlaylists == 2
MaxItems == 3
\* The playlists and the playlist items of the specifications that follow
\* one running session
SessionPlaylists == 1
SessionItems == 2
\* The files of one batch import
BatchSize == 3

\* ------------------------------------------------------ program constants
NUM_BANKS == 6
HOTKEYS_PER_BANK == 24
Eps == 1
FullVolume == 10
Undef == -1
NoId == 0

\* ----------------------------------------------------------------- inputs
Durations == {0, 3}
Volumes == {5, FullVolume}
PlayDurations == {4}
PlayHeads == {1}
PlayTails == {2}
PlayVolumes == {5}
TrimInputs == 0 .. 3
SaveTrims == {1, 3}
ImportTrims == {Undef, 3}
RetrimDurations == {3}
EditTicks == {2}
RetrimInputs == {0, 2}
SignedTrims == -1 .. 3
MoveIndices == -1 .. MaxItems
TestBanks == {1, NUM_BANKS}
TestPositions == {HOTKEYS_PER_BANK}
GridBanks == {1, NUM_BANKS, NUM_BANKS + 1}
GridPositions == {HOTKEYS_PER_BANK, HOTKEYS_PER_BANK + 1}

Max(a, b) == IF a >= b THEN a ELSE b
Min(a, b) == IF a <= b THEN a ELSE b
\* JavaScript's  x || 0  on an optional number
OrZero(x) == IF x = Undef THEN 0 ELSE x

NoItem == [type |-> "none", id |-> NoId]
AudioItem(id) == [type |-> "audio", id |-> id]
PlaylistItemRef(id) == [type |-> "playlist", id |-> id]

VARIABLES audioFiles, playlists, hotkeys, playbackStatus, player,
          handlerFiles, draggedItem, importBatch, nextClip, nextPlaylist,
          nextItem, lastEvent

storeVars == <<audioFiles, playlists, hotkeys>>
idVars == <<nextClip, nextPlaylist, nextItem>>
vars == <<audioFiles, playlists, hotkeys, playbackStatus, player,
          handlerFiles, draggedItem, importBatch, nextClip, nextPlaylist,
          nextItem, lastEvent>>

Slots == (1 .. NUM_BANKS) \X (1 .. HOTKEYS_PER_BANK)

IdleStatus(loop) ==
    [isPlaying |-> FALSE, currentItem |-> NoItem, currentAudioId |-> NoId,
     elapsedTime |-> 0, currentPlaylistId |-> NoId,
     currentPlaylistIndex |-> 0, loop |-> loop]

\* The AudioPlayer with its one HTMLAudioElement: src (the clip whose
\* object URL is loaded, NoId before the first play), paused, currentTime,
\* volume, and the fields currentTailTrim / currentDuration.  pendingEnded
\* is the element's ended event while it waits in the event loop: the
\* clip whose end was reached, NoId when no such event is queued.
InitPlayer ==
    [src |-> NoId, paused |-> TRUE, currentTime |-> 0, volume |-> FullVolume,
     currentTailTrim |-> 0, currentDuration |-> 0, pendingEnded |-> NoId]

\* The session an event found: which clip, which playlist and index, and
\* whether it was playing.
PreOf(ps) ==
    [audio |-> ps.currentAudioId, playlist |-> ps.currentPlaylistId,
     index |-> ps.currentPlaylistIndex, playing |-> ps.isPlaying]

Event(op, arg, threw) ==
    [op |-> op, arg |-> arg, pre |-> PreOf(playbackStatus), threw |-> threw]

Init ==
    /\ audioFiles = << >>
    /\ playlists = << >>
    /\ hotkeys = [s \in Slots |-> NoItem]
    /\ playbackStatus = IdleStatus(FALSE)
    /\ player = InitPlayer
    /\ handlerFiles = << >>
    /\ draggedItem = NoItem
    /\ importBatch = << >>
    /\ nextClip = 1
    /\ nextPlaylist = 101
    /\ nextItem = 201
    /\ lastEvent = [op |-> "init", arg |-> << >>,
                    pre |-> PreOf(IdleStatus(FALSE)), threw |-> FALSE]

\* ------------------------------------------------------------ clip store

\* A clamp without the 0.1 s margin.
clampTrimNoMargin(seconds, duration, otherTrim) ==
    Max(0, Min(seconds, duration - OrZero(otherTrim)))

\* The clamp both trim setters apply (lines 688, 716).
ClampTrim(seconds, duration, otherTrim) ==
    Max(0, Min(seconds, duration - OrZero(otherTrim) - Eps))

\* setAudioFiles updater of setHeadTrim (lines 683-693)
setHeadTrimFiles(prev, audioId, seconds) ==
    [a \in DOMAIN prev |->
        IF a = audioId
        THEN [prev[a] EXCEPT !.trimHead =
                 ClampTrim(seconds, prev[a].duration, prev[a].trimTail)]
        ELSE prev[a]]

\* setAudioFiles updater of setTailTrim (lines 711-721)
setTailTrimFiles(prev, audioId, seconds) ==
    [a \in DOMAIN prev |->
        IF a = audioId
        THEN [prev[a] EXCEPT !.trimTail =
                 ClampTrim(seconds, prev[a].duration, prev[a].trimHead)]
        ELSE prev[a]]

\* updateAudioFile (lines 369-375): { ...audio, ...updates }
updateAudioFileFiles(prev, id, updates) ==
    [a \in DOMAIN prev |->
        IF a = id
        THEN [f \in DOMAIN prev[a] |->
                 IF f \in DOMAIN updates THEN updates[f] ELSE prev[a][f]]
        ELSE prev[a]]

\* The record addAudioFile builds (lines 333-342)
NewAudioFile(duration) ==
    [duration |-> duration, volume |-> FullVolume, trimHead |-> 0,
     trimTail |-> 0]

\* prev.filter(audio => audio.id !== id)  (line 397)
removeAudioFile(prev, id) == [a \in DOMAIN prev \ {id} |-> prev[a]]

\* An effective duration without the floor at 0.
effectiveDurationUnclamped(audioFile) ==
    audioFile.duration - OrZero(audioFile.trimHead)
                       - OrZero(audioFile.trimTail)

\* getEffectiveDuration (lines 315-322)
getEffectiveDuration(audioFile) ==
    Max(0, audioFile.duration - OrZero(audioFile.trimHead)
                              - OrZero(audioFile.trimTail))

\* setAudioFiles(prev => [...prev, newAudioFile])  (line 344)
appendAudioFile(prev, id, audioFile) ==
    [a \in DOMAIN prev \cup {id} |-> IF a = id THEN audioFile ELSE prev[a]]

\* ------------------------------------------------------------ batch import
\* A file of a batch is "audio" (an audio type that decodes), "corrupt"
\* (an audio type whose metadata cannot be loaded), "unreadable" (an audio
\* type the FileReader fails on) or "other" (not an audio type).  Its
\* stage is where its promise stands: "reading" (FileReader at work),
\* "decoding" (the Audio element loads it), "resolved" (clip added),
\* "rejected" (caught by the batch) or "skipped" (returned at the type
\* check).
FinalStages == {"resolved", "rejected", "skipped"}

\* The callback of handleFileChange's map for one file, up to its first
\* await (RightPanel lines 135-143)
startFile(kind) ==
    [kind |-> kind, clip |-> NoId,
     stage |-> IF kind = "other" THEN "skipped" ELSE "reading"]

\* A rejection that takes the rest of the batch down with it.
rejectFileAbortsBatch(batch, f) ==
    [g \in DOMAIN batch |->
        IF batch[g].stage \in FinalStages THEN batch[g]
        ELSE [batch[g] EXCEPT !.stage = "rejected"]]

\* reject(...) of addAudioFile (lines 349, 356), caught inside the file's
\* own callback (RightPanel lines 142-146)
rejectFile(batch, f) == [batch EXCEPT ![f].stage = "rejected"]

\* resolve(newAudioFile) (line 345)
resolveFile(batch, f, id) ==
    [batch EXCEPT ![f].stage = "resolved", ![f].clip = id]

BatchSettled(batch) == \A f \in DOMAIN batch : batch[f].stage \in FinalStages

\* --------------------------------------------------------- playlist store

\* A filter that drops only the first item of the clip.
RECURSIVE FilterFirstItem(_, _)
FilterFirstItem(items, dropAudioId) ==
    IF items = << >> THEN << >>
    ELSE IF Head(items).audioId = dropAudioId
         THEN Tail(items)
         ELSE <<Head(items)>> \o FilterFirstItem(Tail(items), dropAudioId)

\* items.filter(item => item.audioId !== id)  (line 392)
RECURSIVE FilterItems(_, _)
FilterItems(items, dropAudioId) ==
    IF items = << >> THEN << >>
    ELSE IF Head(items).audioId = dropAudioId
         THEN FilterItems(Tail(items), dropAudioId)
         ELSE <<Head(items)>> \o FilterItems(Tail(items), dropAudioId)

\* items.filter(item => item.id !== itemId)  (line 501)
RECURSIVE FilterItemId(_, _)
FilterItemId(items, dropItemId) ==
    IF items = << >> THEN << >>
    ELSE IF Head(items).id = dropItemId
         THEN FilterItemId(Tail(items), dropItemId)
         ELSE <<Head(items)>> \o FilterItemId(Tail(items), dropItemId)

\* setPlaylists updater of deleteAudioFile (lines 389-394)
removeAudioFromPlaylists(prev, id) ==
    [p \in DOMAIN prev |->
        [prev[p] EXCEPT !.items = FilterItems(prev[p].items, id)]]

\* createPlaylist (lines 433-443)
NewPlaylist == [items |-> << >>, playbackMode |-> "follow-on"]

\* updatePlaylist (lines 446-453) with updates = {playbackMode: mode}
setPlaybackMode(prev, id, mode) ==
    [p \in DOMAIN prev |->
        IF p = id THEN [prev[p] EXCEPT !.playbackMode = mode] ELSE prev[p]]

\* The mode handlePlaybackModeChange switches to.
otherMode(mode) == IF mode = "follow-on" THEN "manual" ELSE "follow-on"

\* An addToPlaylist that skips a clip the playlist already holds.
addToPlaylistOnce(prev, playlistId, audioId, itemId) ==
    [p \in DOMAIN prev |->
        IF p = playlistId
           /\ \A k \in 1 .. Len(prev[p].items) :
                 prev[p].items[k].audioId # audioId
        THEN [prev[p] EXCEPT !.items =
                 Append(prev[p].items, [audioId |-> audioId, id |-> itemId])]
        ELSE prev[p]]

\* setPlaylists updater of addToPlaylist (lines 476-490)
addToPlaylistLists(prev, playlistId, audioId, itemId) ==
    [p \in DOMAIN prev |->
        IF p = playlistId
        THEN [prev[p] EXCEPT !.items =
                 Append(prev[p].items, [audioId |-> audioId, id |-> itemId])]
        ELSE prev[p]]

\* setPlaylists updater of removeFromPlaylist (lines 495-505)
removeFromPlaylistLists(prev, playlistId, itemId) ==
    [p \in DOMAIN prev |->
        IF p = playlistId
        THEN [prev[p] EXCEPT !.items = FilterItemId(prev[p].items, itemId)]
        ELSE prev[p]]

\* The start index Array.prototype.splice uses: a negative start counts
\* from the end, and the result is kept inside 0 .. length.
SpliceStart(start, len) ==
    IF start < 0 THEN Max(len + start, 0) ELSE Min(start, len)

\* The array entry splice(newIndex, 0, removed) inserts when
\* splice(oldIndex, 1) removed nothing: undefined.
NoEntry == [audioId |-> NoId, id |-> NoId]

\* lines 513-515, indices 0-based as in the code:
\* items.splice(oldIndex, 1) then items.splice(newIndex, 0, removed)
reorderItems(items, oldIndex, newIndex) ==
    LET from == SpliceStart(oldIndex, Len(items))
        removed == IF from < Len(items) THEN items[from + 1] ELSE NoEntry
        rest == IF from < Len(items)
                THEN SubSeq(items, 1, from)
                        \o SubSeq(items, from + 2, Len(items))
                ELSE items
        to == SpliceStart(newIndex, Len(rest))
    IN SubSeq(rest, 1, to) \o <<removed>> \o SubSeq(rest, to + 1, Len(rest))

\* setPlaylists updater of reorderPlaylistItem (lines 510-524)
reorderPlaylistItemLists(prev, playlistId, oldIndex, newIndex) ==
    [p \in DOMAIN prev |->
        IF p = playlistId
        THEN [prev[p] EXCEPT !.items =
                 reorderItems(prev[p].items, oldIndex, newIndex)]
        ELSE prev[p]]

\* prev.filter(playlist => playlist.id !== id)  (line 466)
removePlaylist(prev, id) == [p \in DOMAIN prev \ {id} |-> prev[p]]

\* ------------------------------------------------------------ hotkey grid

\* An assignment that keeps what the slot already holds.
assignHotkeysIfEmpty(prev, bankId, position, item) ==
    [s \in DOMAIN prev |->
        IF s[1] = bankId /\ s[2] = position /\ prev[s] = NoItem
        THEN item ELSE prev[s]]

\* An assignment that creates the entry it does not find.
assignHotkeysUpserts(prev, bankId, position, item) ==
    [s \in DOMAIN prev \cup {<<bankId, position>>} |->
        IF s[1] = bankId /\ s[2] = position THEN item ELSE prev[s]]

\* setHotkeys updater of assignToHotkey (lines 407-413); clearHotkey
\* (lines 418-424) is the same map with item = null.
assignHotkeys(prev, bankId, position, item) ==
    [s \in DOMAIN prev |->
        IF s[1] = bankId /\ s[2] = position THEN item ELSE prev[s]]

\* setHotkeys updater of deleteAudioFile (lines 380-386) and of
\* deletePlaylist (lines 457-463): clear the slots of that type and id.
clearHotkeysOf(prev, type, id) ==
    [s \in DOMAIN prev |->
        IF prev[s].type = type /\ prev[s].id = id THEN NoItem ELSE prev[s]]

\* ---------------------------------------------------------- AudioPlayer

\* The media layer keeps currentTime inside the loaded media.
ClampTime(time, duration) == Max(0, Min(time, duration))

\* AudioPlayer.play (lines 44-62).  Assigning src (line 53) makes the
\* element load the new resource, which discards the events it had queued.
playerPlay(pl, src, volume, startTime, tailTrim, duration) ==
    [src |-> src, paused |-> FALSE,
     currentTime |-> ClampTime(startTime, duration), volume |-> volume,
     currentTailTrim |-> tailTrim, currentDuration |-> duration,
     pendingEnded |-> NoId]

\* AudioPlayer.pause (lines 64-74)
playerPause(pl) == [pl EXCEPT !.paused = TRUE]

\* AudioPlayer.stop (lines 76-87)
playerStop(pl) == [pl EXCEPT !.paused = TRUE, !.currentTime = 0]

\* AudioPlayer.setCurrentTime (lines 89-93)
playerSetCurrentTime(pl, time) ==
    [pl EXCEPT !.currentTime = ClampTime(time, pl.currentDuration)]

\* A tail watch that fires only past the boundary.
TailPassed(pl) ==
    pl.currentTailTrim > 0
    /\ pl.currentTime > pl.currentDuration - pl.currentTailTrim

\* The tail watch of the timeupdate listener (line 32)
TailReached(pl) ==
    pl.currentTailTrim > 0
    /\ pl.currentTime >= pl.currentDuration - pl.currentTailTrim

\* ------------------------------------------------------------- session
\* The operations below map an effect record [ps, pl, threw, set] (the
\* playbackStatus after the updaters queued so far, the player, whether
\* the running handler has thrown, and whether setPlaybackStatus has been
\* called) to the effect after the call.

Eff(ps, pl) == [ps |-> ps, pl |-> pl, threw |-> FALSE, set |-> FALSE]

\* playAudio (lines 528-555); files is the audioFiles of its closure,
\* playlistId NoId and playlistIndex 0 when the arguments are omitted.
playAudio(e, files, audioId, playlistId, playlistIndex) ==
    IF audioId \in DOMAIN files
    THEN LET audioFile == files[audioId]
             startTime == OrZero(audioFile.trimHead)
             tailTrim == OrZero(audioFile.trimTail)
         IN [e EXCEPT
               !.set = TRUE,
               !.pl = playerPlay(e.pl, audioId, audioFile.volume, startTime,
                                 tailTrim, audioFile.duration),
               !.ps = [e.ps EXCEPT !.isPlaying = TRUE,
                                   !.currentAudioId = audioId,
                                   !.elapsedTime = startTime,
                                   !.currentPlaylistId = playlistId,
                                   !.currentPlaylistIndex = playlistIndex]]
    ELSE e

\* A stop that pauses the output where it is.
stopByPause(e) ==
    [e EXCEPT !.set = TRUE, !.pl = playerPause(e.pl),
              !.ps = IdleStatus(e.ps.loop)]

\* A stop that raises the completion of a looping session: the clip is
\* started over instead of being halted.
stopRestartsLoop(e) ==
    IF e.ps.loop /\ e.ps.currentAudioId # NoId
    THEN [e EXCEPT !.set = TRUE,
                   !.pl = [e.pl EXCEPT !.paused = FALSE, !.currentTime = 0],
                   !.ps = [e.ps EXCEPT !.isPlaying = TRUE, !.elapsedTime = 0]]
    ELSE [e EXCEPT !.set = TRUE, !.pl = playerStop(e.pl),
                   !.ps = IdleStatus(e.ps.loop)]

\* A stop that resets the loop flag with the rest of the session.
stopClearsLoop(e) ==
    [e EXCEPT !.set = TRUE, !.pl = playerStop(e.pl),
              !.ps = IdleStatus(FALSE)]

\* stop (lines 584-598)
stop(e) ==
    [e EXCEPT !.set = TRUE, !.pl = playerStop(e.pl),
              !.ps = IdleStatus(e.ps.loop)]

\* A play that records the item whether or not anything was started.
playRecordsItem(e, pls, files, item) ==
    LET e1 == IF item.type = "audio"
              THEN playAudio(e, files, item.id, NoId, 0)
              ELSE IF item.id \in DOMAIN pls /\ Len(pls[item.id].items) > 0
              THEN playAudio(e, files, pls[item.id].items[1].audioId,
                             item.id, 0)
              ELSE e
    IN [e1 EXCEPT !.set = TRUE, !.ps = [e1.ps EXCEPT !.currentItem = item]]

\* play (lines 558-581); pls and files are the closure's playlists and
\* the audioFiles of the closure's playAudio.
play(e, pls, files, item) ==
    IF item.type = "audio"
    THEN LET e1 == playAudio(e, files, item.id, NoId, 0)
         IN [e1 EXCEPT !.set = TRUE,
                       !.ps = [e1.ps EXCEPT !.currentItem = item,
                                            !.currentPlaylistId = NoId,
                                            !.currentPlaylistIndex = 0]]
    ELSE IF item.type = "playlist"
              /\ item.id \in DOMAIN pls /\ Len(pls[item.id].items) > 0
    THEN LET e1 == playAudio(e, files, pls[item.id].items[1].audioId,
                             item.id, 0)
         IN [e1 EXCEPT !.set = TRUE,
                       !.ps = [e1.ps EXCEPT !.currentItem = item]]
    ELSE e

\* pause (lines 601-610)
pause(e) ==
    [e EXCEPT !.set = TRUE, !.pl = playerPause(e.pl),
              !.ps = [e.ps EXCEPT !.isPlaying = FALSE]]

\* A resume that restarts the clip from its headTrim.
resumeFromHead(e, status, files) ==
    IF status.currentAudioId # NoId /\ status.currentAudioId \in DOMAIN files
    THEN LET audioFile == files[status.currentAudioId]
         IN [e EXCEPT
               !.set = TRUE,
               !.pl = playerPlay(e.pl, status.currentAudioId, audioFile.volume,
                                 OrZero(audioFile.trimHead),
                                 OrZero(audioFile.trimTail),
                                 audioFile.duration),
               !.ps = [e.ps EXCEPT !.isPlaying = TRUE]]
    ELSE e

\* resume (lines 613-634); status and files are the closure's.
resume(e, status, files) ==
    IF status.currentAudioId # NoId /\ status.currentAudioId \in DOMAIN files
    THEN LET audioFile == files[status.currentAudioId]
         IN [e EXCEPT
               !.set = TRUE,
               !.pl = playerPlay(e.pl, status.currentAudioId, audioFile.volume,
                                 status.elapsedTime,
                                 OrZero(audioFile.trimTail),
                                 audioFile.duration),
               !.ps = [e.ps EXCEPT !.isPlaying = TRUE]]
    ELSE e

\* A next that wraps to the first item at the last index when the loop
\* flag is on.
nextWraps(e, status, pls, files) ==
    IF status.currentPlaylistId # NoId
       /\ status.currentPlaylistId \in DOMAIN pls
    THEN LET items == pls[status.currentPlaylistId].items
         IN IF status.currentPlaylistIndex < Len(items) - 1
            THEN playAudio(e, files,
                           items[status.currentPlaylistIndex + 2].audioId,
                           status.currentPlaylistId,
                           status.currentPlaylistIndex + 1)
            ELSE IF status.loop /\ Len(items) > 0
            THEN playAudio(e, files, items[1].audioId,
                           status.currentPlaylistId, 0)
            ELSE e
    ELSE e

\* next (lines 637-649); items[nextIndex] is items[nextIndex + 1] here,
\* sequences being 1-based.
next(e, status, pls, files) ==
    IF status.currentPlaylistId # NoId
       /\ status.currentPlaylistId \in DOMAIN pls
       /\ status.currentPlaylistIndex
            < Len(pls[status.currentPlaylistId].items) - 1
    THEN LET nextIndex == status.currentPlaylistIndex + 1
         IN playAudio(e, files,
                      pls[status.currentPlaylistId].items[nextIndex + 1].audioId,
                      status.currentPlaylistId, nextIndex)
    ELSE e

\* A previous that restarts the first item at index 0.
previousRestarts(e, status, pls, files) ==
    IF status.currentPlaylistId # NoId
       /\ status.currentPlaylistId \in DOMAIN pls
    THEN LET prevIndex == Max(0, status.currentPlaylistIndex - 1)
             items == pls[status.currentPlaylistId].items
         IN IF prevIndex + 1 <= Len(items)
            THEN playAudio(e, files, items[prevIndex + 1].audioId,
                           status.currentPlaylistId, prevIndex)
            ELSE [e EXCEPT !.threw = TRUE]
    ELSE e

\* A previous that restarts the current clip when no playlist is active.
previousRestartsClip(e, status, pls, files) ==
    IF status.currentPlaylistId # NoId
       /\ status.currentPlaylistId \in DOMAIN pls
       /\ status.currentPlaylistIndex > 0
    THEN LET prevIndex == status.currentPlaylistIndex - 1
             items == pls[status.currentPlaylistId].items
         IN IF prevIndex + 1 <= Len(items)
            THEN playAudio(e, files, items[prevIndex + 1].audioId,
                           status.currentPlaylistId, prevIndex)
            ELSE [e EXCEPT !.threw = TRUE]
    ELSE IF status.currentPlaylistId = NoId /\ status.currentAudioId # NoId
    THEN playAudio(e, files, status.currentAudioId, NoId, 0)
    ELSE e

\* previous (lines 652-664).  items[prevIndex] past the end of the array
\* is undefined, and reading its audioId throws.
previous(e, status, pls, files) ==
    IF status.currentPlaylistId # NoId
       /\ status.currentPlaylistId \in DOMAIN pls
       /\ status.currentPlaylistIndex > 0
    THEN LET prevIndex == status.currentPlaylistIndex - 1
             items == pls[status.currentPlaylistId].items
         IN IF prevIndex + 1 <= Len(items)
            THEN playAudio(e, files, items[prevIndex + 1].audioId,
                           status.currentPlaylistId, prevIndex)
            ELSE [e EXCEPT !.threw = TRUE]
    ELSE e

\* setLoop (lines 667-672)
setLoop(e, loop) ==
    [e EXCEPT !.set = TRUE, !.ps = [e.ps EXCEPT !.loop = loop]]

\* handleTimeUpdate (lines 225-230)
handleTimeUpdate(e, time) ==
    [e EXCEPT !.set = TRUE, !.ps = [e.ps EXCEPT !.elapsedTime = time]]

\* A completion handler that wraps a playlist whatever the loop flag.
handleAudioEndedWraps(e, status, pls, files) ==
    IF status.currentPlaylistId # NoId
       /\ status.currentPlaylistId \in DOMAIN pls
    THEN LET items == pls[status.currentPlaylistId].items
         IN IF status.currentPlaylistIndex < Len(items) - 1
            THEN playAudio(e, files,
                           items[status.currentPlaylistIndex + 2].audioId,
                           status.currentPlaylistId,
                           status.currentPlaylistIndex + 1)
            ELSE IF Len(items) > 0
            THEN playAudio(e, files, items[1].audioId,
                           status.currentPlaylistId, 0)
            ELSE [e EXCEPT !.threw = TRUE]
    ELSE IF status.loop /\ status.currentAudioId # NoId
    THEN playAudio(e, files, status.currentAudioId, NoId, 0)
    ELSE stop(e)

\* A completion handler that leaves a manual playlist at the item that
\* ended.
handleAudioEndedManualStops(e, status, pls, files) ==
    IF status.currentPlaylistId # NoId
       /\ status.currentPlaylistId \in DOMAIN pls
    THEN LET items == pls[status.currentPlaylistId].items
         IN IF pls[status.currentPlaylistId].playbackMode = "manual"
            THEN stop(e)
            ELSE IF status.currentPlaylistIndex < Len(items) - 1
            THEN playAudio(e, files,
                           items[status.currentPlaylistIndex + 2].audioId,
                           status.currentPlaylistId,
                           status.currentPlaylistIndex + 1)
            ELSE IF status.loop
            THEN IF Len(items) > 0
                 THEN playAudio(e, files, items[1].audioId,
                                status.currentPlaylistId, 0)
                 ELSE [e EXCEPT !.threw = TRUE]
            ELSE stop(e)
    ELSE IF status.loop /\ status.currentAudioId # NoId
    THEN playAudio(e, files, status.currentAudioId, NoId, 0)
    ELSE stop(e)

\* handleAudioEnded (lines 276-307); status and pls are the playbackStatus
\* and playlists of the handler's closure, files the audioFiles of the
\* playAudio it captured.  items[0] of an empty array is undefined, and
\* reading its audioId throws.
handleAudioEnded(e, status, pls, files) ==
    IF status.currentPlaylistId # NoId
       /\ status.currentPlaylistId \in DOMAIN pls
    THEN LET items == pls[status.currentPlaylistId].items
         IN IF status.currentPlaylistIndex < Len(items) - 1
            THEN playAudio(e, files,
                           items[status.currentPlaylistIndex + 2].audioId,
                           status.currentPlaylistId,
                           status.currentPlaylistIndex + 1)
            ELSE IF status.loop
            THEN IF Len(items) > 0
                 THEN playAudio(e, files, items[1].audioId,
                                status.currentPlaylistId, 0)
                 ELSE [e EXCEPT !.threw = TRUE]
            ELSE stop(e)
    ELSE IF status.loop /\ status.currentAudioId # NoId
    THEN playAudio(e, files, status.currentAudioId, NoId, 0)
    ELSE stop(e)

\* A deletion that leaves the session alone.
neverStop(e, status, id) == e

\* The last step of deleteAudioFile (lines 399-402)
stopIfCurrentAudio(e, status, id) ==
    IF status.currentAudioId = id THEN stop(e) ELSE e

\* A deletion that pauses the session of the deleted playlist.
pauseIfCurrentPlaylist(e, status, id) ==
    IF status.currentPlaylistId = id THEN pause(e) ELSE e

\* The last step of deletePlaylist (lines 468-471)
stopIfCurrentPlaylist(e, status, id) ==
    IF status.currentPlaylistId = id THEN stop(e) ELSE e

\* A head retrim that always moves the output to the new headTrim.
setHeadTrimSeeksAlways(pl, status, files, audioId, seconds) ==
    IF status.currentAudioId = audioId /\ audioId \in DOMAIN files
    THEN playerSetCurrentTime(pl, ClampTrim(seconds, files[audioId].duration,
                                            files[audioId].trimTail))
    ELSE pl

\* The player half of setHeadTrim (lines 696-706); status and files are
\* the closure's.
setHeadTrimPlayer(pl, status, files, audioId, seconds) ==
    IF status.currentAudioId = audioId /\ audioId \in DOMAIN files
    THEN LET newHeadTrim == ClampTrim(seconds, files[audioId].duration,
                                      files[audioId].trimTail)
         IN IF pl.currentTime < newHeadTrim
            THEN playerSetCurrentTime(pl, newHeadTrim)
            ELSE pl
    ELSE pl

\* The player half of setTailTrim (lines 724-735)
setTailTrimPlayer(pl, status, files, audioId, seconds) ==
    IF status.currentAudioId = audioId /\ audioId \in DOMAIN files
    THEN [pl EXCEPT
            !.currentTailTrim = ClampTrim(seconds, files[audioId].duration,
                                          files[audioId].trimHead),
            !.currentDuration = files[audioId].duration]
    ELSE pl

\* ------------------------------------------------------------- actions
\* A render that moves the session to the head of its playlist whenever
\* the playlists were set.
RerenderResyncsIndex(e, setPlaylists, files) ==
    /\ playbackStatus' = IF setPlaylists
                         THEN [e.ps EXCEPT !.currentPlaylistIndex = 0]
                         ELSE e.ps
    /\ player' = e.pl
    /\ handlerFiles' = IF e.set \/ setPlaylists THEN files ELSE handlerFiles

\* An event that calls setPlaybackStatus or setPlaylists gives the state a
\* new identity, so the effect at lines 275-312 re-installs the onEnded
\* handler with the playAudio (and audioFiles) of the new render.
\* setPlaylists says whether the event called setPlaylists, files is the
\* audioFiles after the event.
Rerender(e, setPlaylists, files) ==
    /\ playbackStatus' = e.ps
    /\ player' = e.pl
    /\ handlerFiles' = IF e.set \/ setPlaylists THEN files ELSE handlerFiles

\* addAudioFile's onloadedmetadata callback (lines 332-346): only
\* setAudioFiles is called.
AddAudioFile(duration) ==
    /\ nextClip <= MaxClips
    /\ audioFiles' = [a \in DOMAIN audioFiles \cup {nextClip} |->
                        IF a = nextClip THEN NewAudioFile(duration)
                        ELSE audioFiles[a]]
    /\ nextClip' = nextClip + 1
    /\ lastEvent' = Event("addAudioFile", <<nextClip>>, FALSE)
    /\ UNCHANGED <<playlists, hotkeys, playbackStatus, player, handlerFiles,
                   draggedItem, nextPlaylist, nextItem, importBatch>>

\* setHeadTrim (lines 682-707) called on its own
SetHeadTrim(audioId, seconds) ==
    /\ audioFiles' = setHeadTrimFiles(audioFiles, audioId, seconds)
    /\ player' = setHeadTrimPlayer(player, playbackStatus, audioFiles,
                                   audioId, seconds)
    /\ lastEvent' = Event("setHeadTrim", <<audioId, seconds>>, FALSE)
    /\ UNCHANGED <<playlists, hotkeys, playbackStatus, handlerFiles,
                   draggedItem, idVars, importBatch>>

\* setTailTrim (lines 710-736) called on its own
SetTailTrim(audioId, seconds) ==
    /\ audioFiles' = setTailTrimFiles(audioFiles, audioId, seconds)
    /\ player' = setTailTrimPlayer(player, playbackStatus, audioFiles,
                                   audioId, seconds)
    /\ lastEvent' = Event("setTailTrim", <<audioId, seconds>>, FALSE)
    /\ UNCHANGED <<playlists, hotkeys, playbackStatus, handlerFiles,
                   draggedItem, idVars, importBatch>>

\* AudioTrimEditor.handleSave (lines 84-89): setHeadTrim, setTailTrim and
\* updateAudioFile({volume}) in one event.  The three updaters chain on
\* the latest audioFiles; the player halves both read the audioFiles of
\* the render before the event.
HandleSave(audioId, headTrim, tailTrim, volume) ==
    /\ audioId \in DOMAIN audioFiles
    /\ audioFiles' =
          updateAudioFileFiles(
              setTailTrimFiles(
                  setHeadTrimFiles(audioFiles, audioId, headTrim),
                  audioId, tailTrim),
              audioId, [volume |-> volume])
    /\ player' =
          setTailTrimPlayer(
              setHeadTrimPlayer(player, playbackStatus, audioFiles,
                                audioId, headTrim),
              playbackStatus, audioFiles, audioId, tailTrim)
    /\ lastEvent' = Event("handleSave", <<audioId>>, FALSE)
    /\ UNCHANGED <<playlists, hotkeys, playbackStatus, handlerFiles,
                   draggedItem, idVars, importBatch>>

\* settingsService.importSettings (lines 96-181) on a document with one
\* audioFiles entry whose name matches clip audioId and with no playlists
\* and no hotkeys: one updateAudioFile with the document's trims and
\* volume (lines 117-121).
ImportSettings(audioId, trimHead, trimTail, volume) ==
    /\ audioId \in DOMAIN audioFiles
    /\ audioFiles' =
          updateAudioFileFiles(audioFiles, audioId,
              [trimHead |-> trimHead, trimTail |-> trimTail,
               volume |-> volume])
    /\ lastEvent' = Event("importSettings", <<audioId>>, FALSE)
    /\ UNCHANGED <<playlists, hotkeys, playbackStatus, player, handlerFiles,
                   draggedItem, idVars, importBatch>>

\* deleteAudioFile (lines 378-403)
DeleteAudioFile(id) ==
    /\ hotkeys' = clearHotkeysOf(hotkeys, "audio", id)
    /\ playlists' = removeAudioFromPlaylists(playlists, id)
    /\ audioFiles' = removeAudioFile(audioFiles, id)
    /\ Rerender(stopIfCurrentAudio(Eff(playbackStatus, player),
                                   playbackStatus, id),
                TRUE, removeAudioFile(audioFiles, id))
    /\ lastEvent' = Event("deleteAudioFile", <<id>>, FALSE)
    /\ UNCHANGED <<draggedItem, idVars, importBatch>>

\* createPlaylist (lines 433-443)
CreatePlaylist ==
    /\ nextPlaylist <= 100 + MaxPlaylists
    /\ playlists' = [p \in DOMAIN playlists \cup {nextPlaylist} |->
                        IF p = nextPlaylist THEN NewPlaylist
                        ELSE playlists[p]]
    /\ nextPlaylist' = nextPlaylist + 1
    /\ Rerender(Eff(playbackStatus, player), TRUE, audioFiles)
    /\ lastEvent' = Event("createPlaylist", <<nextPlaylist>>, FALSE)
    /\ UNCHANGED <<audioFiles, hotkeys, draggedItem, nextClip, nextItem,
                   importBatch>>

\* handlePlaybackModeChange (PlaylistManager.tsx lines 245-248, part_003
\* lines 66-69): the mode button of a listed playlist switches its mode
\* through updatePlaylist, which calls setPlaylists only.
HandlePlaybackModeChange(playlistId) ==
    /\ playlistId \in DOMAIN playlists
    /\ playlists' = setPlaybackMode(playlists, playlistId,
                        otherMode(playlists[playlistId].playbackMode))
    /\ Rerender(Eff(playbackStatus, player), TRUE, audioFiles)
    /\ lastEvent' = Event("handlePlaybackModeChange", <<playlistId>>, FALSE)
    /\ UNCHANGED <<audioFiles, hotkeys, draggedItem, idVars, importBatch>>

\* deletePlaylist (lines 455-472)
DeletePlaylist(id) ==
    /\ hotkeys' = clearHotkeysOf(hotkeys, "playlist", id)
    /\ playlists' = removePlaylist(playlists, id)
    /\ Rerender(stopIfCurrentPlaylist(Eff(playbackStatus, player),
                                      playbackStatus, id),
                TRUE, audioFiles)
    /\ lastEvent' = Event("deletePlaylist", <<id>>, FALSE)
    /\ UNCHANGED <<audioFiles, draggedItem, idVars, importBatch>>

\* addToPlaylist (lines 475-491), from PlaylistEditor's
\* handleAddSelectedTracks (part_003 lines 88-93), one selected track.
AddToPlaylist(playlistId, audioId) ==
    /\ nextItem <= 200 + MaxItems
    /\ playlists' = addToPlaylistLists(playlists, playlistId, audioId, nextItem)
    /\ nextItem' = nextItem + 1
    /\ Rerender(Eff(playbackStatus, player), TRUE, audioFiles)
    /\ lastEvent' = Event("addToPlaylist", <<audioId>>, FALSE)
    /\ UNCHANGED <<audioFiles, hotkeys, draggedItem, nextClip, nextPlaylist,
                   importBatch>>

\* removeFromPlaylist (lines 494-506)
RemoveFromPlaylist(playlistId, itemId) ==
    /\ playlists' = removeFromPlaylistLists(playlists, playlistId, itemId)
    /\ Rerender(Eff(playbackStatus, player), TRUE, audioFiles)
    /\ lastEvent' = Event("removeFromPlaylist", <<itemId>>, FALSE)
    /\ UNCHANGED <<audioFiles, hotkeys, draggedItem, idVars, importBatch>>

\* reorderPlaylistItem (lines 509-525)
ReorderPlaylistItem(playlistId, oldIndex, newIndex) ==
    /\ playlists' = reorderPlaylistItemLists(playlists, playlistId, oldIndex,
                                             newIndex)
    /\ Rerender(Eff(playbackStatus, player), TRUE, audioFiles)
    /\ lastEvent' = Event("reorderPlaylistItem",
                        <<oldIndex, newIndex, playlistId>>, FALSE)
    /\ UNCHANGED <<audioFiles, hotkeys, draggedItem, idVars, importBatch>>

\* handleDragStart of the library rows (RightPanel lines 158-163) and of
\* the playlist rows (PlaylistManager lines 54-59).  Nothing clears
\* draggedItem when a drag ends without a drop on a hotkey.
DragStart(item) ==
    /\ draggedItem' = item
    /\ lastEvent' = Event("dragStart", <<item>>, FALSE)
    /\ UNCHANGED <<storeVars, playbackStatus, player, handlerFiles, idVars,
                   importBatch>>

\* HotKeyButton.handleDrop (lines 50-65) -> assignToHotkey (lines 406-414)
DropOnHotkey(bankId, position) ==
    /\ draggedItem # NoItem
    /\ hotkeys' = assignHotkeys(hotkeys, bankId, position, draggedItem)
    /\ draggedItem' = NoItem
    /\ lastEvent' = Event("assignToHotkey", <<bankId, position>>, FALSE)
    /\ UNCHANGED <<audioFiles, playlists, playbackStatus, player,
                   handlerFiles, idVars, importBatch>>

\* assignToHotkey (lines 406-414) with the bankId and position its caller
\* passes: those of a grid button (HotKeyButton line 58) or those read
\* from an imported document (UtilitiesPanel lines 176-180, 480-483).
AssignToHotkey(bankId, position, item) ==
    /\ hotkeys' = assignHotkeys(hotkeys, bankId, position, item)
    /\ lastEvent' = Event("assignToHotkey", <<bankId, position, item>>, FALSE)
    /\ UNCHANGED <<audioFiles, playlists, playbackStatus, player,
                   handlerFiles, draggedItem, idVars, importBatch>>

\* clearHotkey (lines 417-425)
ClearHotkey(bankId, position) ==
    /\ hotkeys' = assignHotkeys(hotkeys, bankId, position, NoItem)
    /\ lastEvent' = Event("clearHotkey", <<bankId, position>>, FALSE)
    /\ UNCHANGED <<audioFiles, playlists, playbackStatus, player,
                   handlerFiles, draggedItem, idVars, importBatch>>

\* A session command: the effect e of the call on (playbackStatus, player).
Command(op, arg, e) ==
    /\ Rerender(e, FALSE, audioFiles)
    /\ lastEvent' = Event(op, arg, e.threw)
    /\ UNCHANGED <<storeVars, draggedItem, idVars, importBatch>>

Play(item) ==
    Command("play", <<item>>,
            play(Eff(playbackStatus, player), playlists, audioFiles, item))

Stop == Command("stop", << >>, stop(Eff(playbackStatus, player)))

Pause == Command("pause", << >>, pause(Eff(playbackStatus, player)))

Resume ==
    Command("resume", << >>,
            resume(Eff(playbackStatus, player), playbackStatus, audioFiles))

SkipNext ==
    Command("next", << >>,
            next(Eff(playbackStatus, player), playbackStatus, playlists,
                 audioFiles))

SkipPrevious ==
    Command("previous", << >>,
            previous(Eff(playbackStatus, player), playbackStatus, playlists,
                     audioFiles))

SetLoop(loop) ==
    Command("setLoop", <<loop>>, setLoop(Eff(playbackStatus, player), loop))

\* The media element's timeupdate event at output time `time` and its
\* listener (lines 27-37): report the time, then the tail watch, which
\* stops the player and runs the installed onEnded handler.
TimeUpdate(time) ==
    /\ ~player.paused
    /\ time >= player.currentTime /\ time <= player.currentDuration
    /\ LET pl1 == [player EXCEPT !.currentTime = time]
           e1 == handleTimeUpdate(Eff(playbackStatus, pl1), time)
           e == IF TailReached(pl1)
                THEN handleAudioEnded([e1 EXCEPT !.pl = playerStop(pl1)],
                                      playbackStatus, playlists, handlerFiles)
                ELSE e1
       IN /\ Rerender(e, FALSE, audioFiles)
          /\ lastEvent' = Event(IF TailReached(pl1) THEN "tailReached"
                                                    ELSE "timeupdate",
                                <<time>>, e.threw)
    /\ UNCHANGED <<storeVars, draggedItem, idVars, importBatch>>

\* The media reaches its natural end: the element pauses at its duration
\* and fires ended, whose listener (lines 39-41) runs the installed
\* onEnded handler.
Ended ==
    /\ ~player.paused
    /\ LET pl1 == [player EXCEPT !.paused = TRUE,
                                 !.currentTime = player.currentDuration]
           e == handleAudioEnded(Eff(playbackStatus, pl1), playbackStatus,
                                 playlists, handlerFiles)
       IN /\ Rerender(e, FALSE, audioFiles)
          /\ lastEvent' = Event("ended", << >>, e.threw)
    /\ UNCHANGED <<storeVars, draggedItem, idVars, importBatch>>

\* The media reaches its natural end and the element queues its ended
\* event (listener at lines 39-41), which other events may overtake.
MediaEnds ==
    /\ ~player.paused
    /\ player' = [player EXCEPT !.paused = TRUE,
                                !.currentTime = player.currentDuration,
                                !.pendingEnded = player.src]
    /\ lastEvent' = Event("mediaEnds", << >>, FALSE)
    /\ UNCHANGED <<storeVars, playbackStatus, handlerFiles, draggedItem,
                   idVars, importBatch>>

\* The queued ended event is dispatched: its listener (lines 39-41) runs
\* the installed onEnded handler on whatever the session is by now.
DeliverEnded ==
    /\ player.pendingEnded # NoId
    /\ LET pl1 == [player EXCEPT !.pendingEnded = NoId]
           e == handleAudioEnded(Eff(playbackStatus, pl1), playbackStatus,
                                 playlists, handlerFiles)
       IN /\ Rerender(e, FALSE, audioFiles)
          /\ lastEvent' = Event("ended", << >>, e.threw)
    /\ UNCHANGED <<storeVars, draggedItem, idVars, importBatch>>

\* PlaylistEditor.handleDrop (part_003 lines 41-48) -> addToPlaylist
DropOnPlaylist(playlistId) ==
    /\ draggedItem.type = "audio"
    /\ nextItem <= 200 + MaxItems
    /\ playlists' = addToPlaylistLists(playlists, playlistId, draggedItem.id,
                                       nextItem)
    /\ nextItem' = nextItem + 1
    /\ draggedItem' = NoItem
    /\ Rerender(Eff(playbackStatus, player), TRUE, audioFiles)
    /\ lastEvent' = Event("addToPlaylist", <<draggedItem.id>>, FALSE)
    /\ UNCHANGED <<audioFiles, hotkeys, nextClip, nextPlaylist,
                   importBatch>>

\* AudioLibrary.handleFileChange (RightPanel lines 123-156): every file of
\* the selection starts at once; the Browse button is disabled while a
\* batch is processed (line 239).
HandleFileChange(kinds) ==
    /\ BatchSettled(importBatch)
    /\ Len(kinds) > 0
    /\ importBatch' = [f \in 1 .. Len(kinds) |-> startFile(kinds[f])]
    /\ lastEvent' = Event("handleFileChange", <<Len(kinds)>>, FALSE)
    /\ UNCHANGED <<storeVars, playbackStatus, player, handlerFiles,
                   draggedItem, idVars>>

\* fileReader.onload (lines 329-353): the Audio element is created and
\* given the file's object URL.
FileReaderLoad(f) ==
    /\ importBatch[f].stage = "reading"
    /\ importBatch[f].kind # "unreadable"
    /\ importBatch' = [importBatch EXCEPT ![f].stage = "decoding"]
    /\ lastEvent' = Event("fileReaderLoad", <<f>>, FALSE)
    /\ UNCHANGED <<storeVars, playbackStatus, player, handlerFiles,
                   draggedItem, idVars>>

\* fileReader.onerror (lines 355-357)
FileReaderError(f) ==
    /\ importBatch[f].stage = "reading"
    /\ importBatch[f].kind = "unreadable"
    /\ importBatch' = rejectFile(importBatch, f)
    /\ lastEvent' = Event("fileReaderError", <<f>>, FALSE)
    /\ UNCHANGED <<storeVars, playbackStatus, player, handlerFiles,
                   draggedItem, idVars>>

\* audio.onloadedmetadata (lines 332-346) of a file of the batch
LoadedMetadata(f, duration) ==
    /\ importBatch[f].stage = "decoding"
    /\ importBatch[f].kind = "audio"
    /\ audioFiles' = appendAudioFile(audioFiles, nextClip,
                                     NewAudioFile(duration))
    /\ nextClip' = nextClip + 1
    /\ importBatch' = resolveFile(importBatch, f, nextClip)
    /\ lastEvent' = Event("loadedMetadata", <<f, nextClip>>, FALSE)
    /\ UNCHANGED <<playlists, hotkeys, playbackStatus, player, handlerFiles,
                   draggedItem, nextPlaylist, nextItem>>

\* audio.onerror (lines 348-350)
AudioError(f) ==
    /\ importBatch[f].stage = "decoding"
    /\ importBatch[f].kind = "corrupt"
    /\ importBatch' = rejectFile(importBatch, f)
    /\ lastEvent' = Event("audioError", <<f>>, FALSE)
    /\ UNCHANGED <<storeVars, playbackStatus, player, handlerFiles,
                   draggedItem, idVars>>

\* ------------------------------------------------------- specifications
CreatedClips == 1 .. nextClip - 1
CreatedPlaylists == 101 .. nextPlaylist - 1
LiveItems ==
    {AudioItem(a) : a \in DOMAIN audioFiles}
        \cup {PlaylistItemRef(p) : p \in DOMAIN playlists}
\* What a hotkey may name: a stale drop assigns an item deleted since
\* its drag started, and the hotkey's click plays it.
CreatedItemRefs ==
    {AudioItem(a) : a \in CreatedClips}
        \cup {PlaylistItemRef(p) : p \in CreatedPlaylists}
ItemIdsOf(items) == {items[k].id : k \in 1 .. Len(items)}
AssignedItems == {hotkeys[s] : s \in TestBanks \X TestPositions} \ {NoItem}

StoreNext ==
    \/ \E d \in Durations : AddAudioFile(d)
    \/ \E a \in DOMAIN audioFiles, t \in TrimInputs : SetHeadTrim(a, t)
    \/ \E a \in DOMAIN audioFiles, t \in TrimInputs : SetTailTrim(a, t)
    \/ \E a \in DOMAIN audioFiles, h \in SaveTrims, t \in SaveTrims,
          v \in Volumes : HandleSave(a, h, t, v)
    \/ \E a \in DOMAIN audioFiles, h \in ImportTrims, t \in ImportTrims :
             ImportSettings(a, h, t, FullVolume)
    \/ \E a \in DOMAIN audioFiles : DeleteAudioFile(a)

StoreSpec == Init /\ [][StoreNext]_vars

\* The references between the stores: library, playlists, drag and drop,
\* hotkeys, and playing what a hotkey or a row names.
RefsNext ==
    \/ \E d \in PlayDurations : AddAudioFile(d)
    \/ \E a \in DOMAIN audioFiles : DeleteAudioFile(a)
    \/ (nextPlaylist <= 100 + SessionPlaylists /\ CreatePlaylist)
    \/ \E p \in DOMAIN playlists : DeletePlaylist(p)
    \/ \E p \in DOMAIN playlists, a \in DOMAIN audioFiles :
          nextItem <= 200 + SessionItems /\ AddToPlaylist(p, a)
    \/ \E i \in LiveItems : DragStart(i)
    \/ \E b \in TestBanks, q \in TestPositions : DropOnHotkey(b, q)
    \/ \E b \in TestBanks, q \in TestPositions : ClearHotkey(b, q)
    \/ \E i \in LiveItems \cup AssignedItems : Play(i)
    \/ Stop

RefsSpec == Init /\ [][RefsNext]_vars

\* The session under deletions: untrimmed clips, a playlist edited by
\* selection, by drop and by removal, every transport command,
\* completions, and deletions under a running session.
SessionNext ==
    \/ \E d \in PlayDurations : AddAudioFile(d)
    \/ \E a \in DOMAIN audioFiles : DeleteAudioFile(a)
    \/ (nextPlaylist <= 100 + SessionPlaylists /\ CreatePlaylist)
    \/ \E p \in DOMAIN playlists : DeletePlaylist(p)
    \/ \E p \in DOMAIN playlists, a \in DOMAIN audioFiles :
          nextItem <= 200 + SessionItems /\ AddToPlaylist(p, a)
    \/ \E a \in DOMAIN audioFiles : DragStart(AudioItem(a))
    \/ \E p \in DOMAIN playlists :
          nextItem <= 200 + SessionItems /\ DropOnPlaylist(p)
    \/ \E p \in DOMAIN playlists :
          \E i \in ItemIdsOf(playlists[p].items) : RemoveFromPlaylist(p, i)
    \/ \E i \in CreatedItemRefs : Play(i)
    \/ Stop
    \/ Pause
    \/ Resume
    \/ SkipNext
    \/ SkipPrevious
    \/ \E b \in BOOLEAN : SetLoop(b)
    \/ Ended

SessionSpec == Init /\ [][SessionNext]_vars

\* Playback: retrimmed clips, a playlist, play, the loop flag and the
\* media element's events.
PlayNext ==
    \/ \E d \in PlayDurations : AddAudioFile(d)
    \/ \E a \in DOMAIN audioFiles, h \in PlayHeads, t \in PlayTails,
          v \in PlayVolumes : HandleSave(a, h, t, v)
    \/ (nextPlaylist <= 100 + SessionPlaylists /\ CreatePlaylist)
    \/ \E p \in DOMAIN playlists, a \in DOMAIN audioFiles :
          nextItem <= 200 + SessionItems /\ AddToPlaylist(p, a)
    \/ \E i \in LiveItems : Play(i)
    \/ Stop
    \/ Pause
    \/ Resume
    \/ \E b \in BOOLEAN : SetLoop(b)
    \/ \E t \in 1 .. player.currentDuration : TimeUpdate(t)
    \/ Ended

PlaySpec == Init /\ [][PlayNext]_vars

\* Transport: playback of retrimmed clips and of a playlist under every
\* transport command (play, stop, pause, resume, next, previous, loop) and
\* the media element's events.
TransportNext ==
    \/ \E d \in PlayDurations : AddAudioFile(d)
    \/ \E a \in DOMAIN audioFiles, h \in PlayHeads, t \in PlayTails,
          v \in PlayVolumes : HandleSave(a, h, t, v)
    \/ (nextPlaylist <= 100 + SessionPlaylists /\ CreatePlaylist)
    \/ \E p \in DOMAIN playlists, a \in DOMAIN audioFiles :
          nextItem <= 200 + SessionItems /\ AddToPlaylist(p, a)
    \/ \E i \in LiveItems : Play(i)
    \/ Stop
    \/ Pause
    \/ Resume
    \/ SkipNext
    \/ SkipPrevious
    \/ \E b \in BOOLEAN : SetLoop(b)
    \/ \E t \in 1 .. player.currentDuration : TimeUpdate(t)
    \/ Ended

TransportSpec == Init /\ [][TransportNext]_vars

\* The playlist store and what refers to it: two playlists, their items,
\* hotkeys assigned to clips and to playlists, deletion of a playlist
\* under a running session.
ListsNext ==
    \/ \E d \in PlayDurations : AddAudioFile(d)
    \/ CreatePlaylist
    \/ \E p \in DOMAIN playlists : DeletePlaylist(p)
    \/ \E p \in DOMAIN playlists, a \in DOMAIN audioFiles :
          nextItem <= 200 + SessionItems /\ AddToPlaylist(p, a)
    \/ \E i \in LiveItems : DragStart(i)
    \/ \E b \in TestBanks, q \in TestPositions : DropOnHotkey(b, q)
    \/ \E p \in DOMAIN playlists : Play(PlaylistItemRef(p))

ListsSpec == Init /\ [][ListsNext]_vars

\* Live retrim: clips played alone and retrimmed under the session by
\* setHeadTrim, by setTailTrim and by the trim editor's save, with pause,
\* resume and the media element's time ticks.
RetrimNext ==
    \/ \E d \in RetrimDurations : AddAudioFile(d)
    \/ \E a \in DOMAIN audioFiles, t \in RetrimInputs : SetHeadTrim(a, t)
    \/ \E a \in DOMAIN audioFiles, t \in RetrimInputs : SetTailTrim(a, t)
    \/ \E a \in DOMAIN audioFiles, h \in RetrimInputs, t \in RetrimInputs :
          HandleSave(a, h, t, FullVolume)
    \/ \E a \in DOMAIN audioFiles : Play(AudioItem(a))
    \/ Pause
    \/ Resume
    \/ \E t \in 1 .. player.currentDuration : TimeUpdate(t)

RetrimSpec == Init /\ [][RetrimNext]_vars

\* Completions that wait in the event loop: the media element's ended
\* event is queued when the clip runs out and dispatched later, after
\* whatever commands, deletions and hotkey clicks arrived in between.
LateNext ==
    \/ \E d \in PlayDurations : AddAudioFile(d)
    \/ \E a \in DOMAIN audioFiles : DeleteAudioFile(a)
    \/ (nextPlaylist <= 100 + SessionPlaylists /\ CreatePlaylist)
    \/ \E p \in DOMAIN playlists : DeletePlaylist(p)
    \/ \E p \in DOMAIN playlists, a \in DOMAIN audioFiles :
          nextItem <= 200 + SessionItems /\ AddToPlaylist(p, a)
    \/ \E a \in DOMAIN audioFiles : DragStart(AudioItem(a))
    \/ \E q \in TestPositions : DropOnHotkey(1, q)
    \/ \E i \in LiveItems \cup AssignedItems : Play(i)
    \/ Stop
    \/ Pause
    \/ Resume
    \/ SkipNext
    \/ SkipPrevious
    \/ \E b \in BOOLEAN : SetLoop(b)
    \/ MediaEnds
    \/ DeliverEnded

LateSpec == Init /\ [][LateNext]_vars

\* The loop flag under everything that touches the session: transport
\* commands, completions, time ticks, retrims and deletions.
LoopNext ==
    \/ \E d \in PlayDurations : AddAudioFile(d)
    \/ \E a \in DOMAIN audioFiles, h \in PlayHeads, t \in PlayTails,
          v \in PlayVolumes : HandleSave(a, h, t, v)
    \/ \E a \in DOMAIN audioFiles : DeleteAudioFile(a)
    \/ (nextPlaylist <= 100 + SessionPlaylists /\ CreatePlaylist)
    \/ \E p \in DOMAIN playlists : DeletePlaylist(p)
    \/ \E p \in DOMAIN playlists, a \in DOMAIN audioFiles :
          nextItem <= 200 + SessionItems /\ AddToPlaylist(p, a)
    \/ \E i \in LiveItems : Play(i)
    \/ Stop
    \/ Pause
    \/ Resume
    \/ SkipNext
    \/ SkipPrevious
    \/ \E b \in BOOLEAN : SetLoop(b)
    \/ \E t \in 1 .. player.currentDuration : TimeUpdate(t)
    \/ Ended

LoopSpec == Init /\ [][LoopNext]_vars

\* Editing a playlist under its own session: items added, removed and
\* moved up or down by the editor (PlaylistEditor lines 61-75) while the
\* playlist plays.
EditNext ==
    \/ \E d \in PlayDurations : AddAudioFile(d)
    \/ (nextPlaylist <= 100 + SessionPlaylists /\ CreatePlaylist)
    \/ \E p \in DOMAIN playlists, a \in DOMAIN audioFiles : AddToPlaylist(p, a)
    \/ \E p \in DOMAIN playlists :
          \E i \in ItemIdsOf(playlists[p].items) : RemoveFromPlaylist(p, i)
    \/ \E p \in DOMAIN playlists :
          \E index \in 1 .. Len(playlists[p].items) - 1 :
             ReorderPlaylistItem(p, index, index - 1)
    \/ \E p \in DOMAIN playlists :
          \E index \in 0 .. Len(playlists[p].items) - 2 :
             ReorderPlaylistItem(p, index, index + 1)
    \/ \E p \in DOMAIN playlists : Play(PlaylistItemRef(p))
    \/ SkipNext
    \/ Pause
    \/ \E t \in EditTicks : TimeUpdate(t)

EditSpec == Init /\ [][EditNext]_vars

\* The hotkey grid: assignments and clears addressed inside and outside
\* the grid, with the deletions that clear hotkeys and a session started
\* from what the hotkeys name.
GridNext ==
    \/ \E d \in PlayDurations : AddAudioFile(d)
    \/ \E a \in DOMAIN audioFiles : DeleteAudioFile(a)
    \/ (nextPlaylist <= 100 + SessionPlaylists /\ CreatePlaylist)
    \/ \E p \in DOMAIN playlists : DeletePlaylist(p)
    \/ \E b \in GridBanks, q \in GridPositions, i \in LiveItems :
          AssignToHotkey(b, q, i)
    \/ \E b \in GridBanks, q \in GridPositions : ClearHotkey(b, q)
    \/ \E i \in AssignedItems : Play(i)
    \/ Stop

GridSpec == Init /\ [][GridNext]_vars

\* The selections of a batch import: up to BatchSize files of any kinds.
FileKinds == {"audio", "corrupt", "unreadable", "other"}
Batches == UNION {[1 .. n -> FileKinds] : n \in 1 .. BatchSize}

\* Batch imports: the files of a selection read and decoded concurrently,
\* their callbacks in any order, while clips already imported are played.
ImportNext ==
    \/ \E kinds \in Batches : nextClip <= MaxClips /\ HandleFileChange(kinds)
    \/ \E f \in DOMAIN importBatch : FileReaderLoad(f)
    \/ \E f \in DOMAIN importBatch : FileReaderError(f)
    \/ \E f \in DOMAIN importBatch, d \in PlayDurations : LoadedMetadata(f, d)
    \/ \E f \in DOMAIN importBatch : AudioError(f)
    \/ \E a \in DOMAIN audioFiles : Play(AudioItem(a))
    \/ Stop

ImportSpec == Init /\ [][ImportNext]_vars

\* The trim setters as an interface: any seconds, negative and past the
\* clip's end included, on clips of the store, on clips whose imported
\* trims are missing or break the invariant, and on ids of deleted clips.
TrimNext ==
    \/ \E d \in Durations : AddAudioFile(d)
    \/ \E a \in CreatedClips, t \in SignedTrims : SetHeadTrim(a, t)
    \/ \E a \in CreatedClips, t \in SignedTrims : SetTailTrim(a, t)
    \/ \E a \in DOMAIN audioFiles, h \in ImportTrims, t \in ImportTrims :
             ImportSettings(a, h, t, FullVolume)
    \/ \E a \in DOMAIN audioFiles : DeleteAudioFile(a)

TrimSpec == Init /\ [][TrimNext]_vars

\* reorderPlaylistItem as an interface: any pair of indices, negative and
\* past the end included, on the playlists of the store and on the id of a
\* deleted playlist.  A playlist is reordered while it has at most
\* MaxItems entries, and items are removed from it while it has no
\* undefined entry (the filter at line 501 reads item.id of every entry).
MoveNext ==
    \/ \E d \in PlayDurations : AddAudioFile(d)
    \/ (nextPlaylist <= 100 + SessionPlaylists /\ CreatePlaylist)
    \/ \E p \in DOMAIN playlists : DeletePlaylist(p)
    \/ \E p \in DOMAIN playlists, a \in DOMAIN audioFiles : AddToPlaylist(p, a)
    \/ \E p \in DOMAIN playlists :
          \E i \in ItemIdsOf(playlists[p].items) :
             NoId \notin ItemIdsOf(playlists[p].items)
                /\ RemoveFromPlaylist(p, i)
    \/ \E p \in CreatedPlaylists, oldIndex \in MoveIndices,
          newIndex \in MoveIndices :
          /\ p \in DOMAIN playlists => Len(playlists[p].items) <= MaxItems
          /\ ReorderPlaylistItem(p, oldIndex, newIndex)

MoveSpec == Init /\ [][MoveNext]_vars

\* Playlists in both continuation modes: a library and playlists are
\* built and edited, the mode button of any playlist is pressed at any
\* time, and the session runs under every command and completion.
ModeNext ==
    \/ \E d \in PlayDurations : AddAudioFile(d)
    \/ (nextPlaylist <= 100 + SessionPlaylists /\ CreatePlaylist)
    \/ \E p \in DOMAIN playlists, a \in DOMAIN audioFiles :
          nextItem <= 200 + SessionItems /\ AddToPlaylist(p, a)
    \/ \E p \in DOMAIN playlists :
          \E i \in ItemIdsOf(playlists[p].items) : RemoveFromPlaylist(p, i)
    \/ \E p \in DOMAIN playlists : HandlePlaybackModeChange(p)
    \/ \E i \in LiveItems : Play(i)
    \/ Stop
    \/ Pause
    \/ Resume
    \/ SkipNext
    \/ SkipPrevious
    \/ \E b \in BOOLEAN : SetLoop(b)
    \/ \E t \in 1 .. player.currentDuration : TimeUpdate(t)
    \/ Ended

ModeSpec == Init /\ [][ModeNext]_vars

\* A playlist left to itself: the library and the playlist are built
\* (by selection and by drop, with deletions) before anything is played,
\* the playlist is started and skipped ahead, and from then on only the
\* completions of the started clips arrive.
Unplayed == player.src = NoId

AutoNext ==
    \/ \E d \in PlayDurations : Unplayed /\ AddAudioFile(d)
    \/ \E a \in DOMAIN audioFiles : Unplayed /\ DeleteAudioFile(a)
    \/ (Unplayed /\ nextPlaylist <= 100 + SessionPlaylists /\ CreatePlaylist)
    \/ \E p \in DOMAIN playlists, a \in DOMAIN audioFiles :
          Unplayed /\ AddToPlaylist(p, a)
    \/ \E a \in DOMAIN audioFiles : Unplayed /\ DragStart(AudioItem(a))
    \/ \E p \in DOMAIN playlists : Unplayed /\ DropOnPlaylist(p)
    \/ \E b \in BOOLEAN : Unplayed /\ SetLoop(b)
    \/ \E p \in DOMAIN playlists : Unplayed /\ Play(PlaylistItemRef(p))
    \/ (lastEvent.op \in {"play", "next"} /\ SkipNext)
    \/ Ended

\* Every started clip eventually raises its completion.
AutoSpec == Init /\ [][AutoNext]_vars /\ WF_vars(Ended)

\* ------------------------------------------------------------ properties
\* The session states of the coordinator, read off playbackStatus: Idle has
\* no current clip, PlayingPlaylist has a current playlist, PlayingSingle a
\* current clip and no playlist (pause does not change the logical state).
IsIdle(ps) == ps.currentAudioId = NoId /\ ps.currentPlaylistId = NoId

InSingle(ps) == ps.currentAudioId # NoId /\ ps.currentPlaylistId = NoId

\* The events that raise a completion: the tail watch and the natural end.
Completions == {"tailReached", "ended"}

ClipMutations == {"setHeadTrim", "setTailTrim", "handleSave", "importSettings"}

TrimsWithin(f) ==
    /\ OrZero(f.trimHead) >= 0
    /\ OrZero(f.trimTail) >= 0
    /\ OrZero(f.trimHead) + OrZero(f.trimTail) <= f.duration - Eps

\* C1: after any clip mutation (setHeadTrim, setTailTrim, updateAudioFile,
\* a settings import writing trims through updateAudioFile) every clip of
\* the store has headTrim >= 0, tailTrim >= 0 and
\* headTrim + tailTrim <= duration - 0.1.
C1_TrimsWithinDuration ==
    lastEvent.op \in ClipMutations
        => \A a \in DOMAIN audioFiles : TrimsWithin(audioFiles[a])

\* What deleteAudioFile(id) must leave behind.
DeletedClipGone(id) ==
    /\ DOMAIN audioFiles' = DOMAIN audioFiles \ {id}
    /\ \A a \in DOMAIN audioFiles' : audioFiles'[a] = audioFiles[a]
    /\ DOMAIN playlists' = DOMAIN playlists
    /\ \A p \in DOMAIN playlists :
          playlists'[p].items =
              SelectSeq(playlists[p].items, LAMBDA it : it.audioId # id)
    /\ \A h \in Slots :
          hotkeys'[h] = IF hotkeys[h] = AudioItem(id) THEN NoItem
                        ELSE hotkeys[h]
    /\ playbackStatus.currentAudioId = id
          => /\ IsIdle(playbackStatus')
             /\ ~playbackStatus'.isPlaying
             /\ player'.paused

\* C2: after deleteAudioFile(id) the clip is gone from the store, no
\* playlist holds an item of it (its duplicates removed, the other items
\* kept in order), no hotkey names it, every other clip and hotkey is
\* unchanged, and the session is Idle with the output halted if id was
\* the active clip.
C2_DeleteAudioFileCascades ==
    [][lastEvent'.op = "deleteAudioFile" => DeletedClipGone(lastEvent'.arg[1])]_vars

\* The active clip, the head of a playlist holding it twice, was deleted
\* while another clip stayed in the playlist and on a hotkey.
C2_Witness ==
    /\ lastEvent.op = "deleteAudioFile"
    /\ lastEvent.pre.audio = lastEvent.arg[1]
    /\ lastEvent.pre.playing
    /\ IsIdle(playbackStatus)
    /\ \E p \in DOMAIN playlists :
          Len(playlists[p].items) > 0 /\ nextItem > 201 + Len(playlists[p].items)
    /\ \E h \in Slots : hotkeys[h].type = "audio"
    /\ audioFiles # << >>

\* C3: a session that is not Idle holds no dangling reference: its
\* current clip is in the clip store and its current playlist, when set,
\* is in the playlist store.
C3_NoDanglingSession ==
    /\ playbackStatus.currentAudioId # NoId
          => playbackStatus.currentAudioId \in DOMAIN audioFiles
    /\ playbackStatus.currentPlaylistId # NoId
          => playbackStatus.currentPlaylistId \in DOMAIN playlists

\* A clip was deleted under a playlist session that goes on.
C3_Witness ==
    /\ lastEvent.op = "deleteAudioFile"
    /\ lastEvent.pre.playlist # NoId
    /\ playbackStatus.currentPlaylistId = lastEvent.pre.playlist
    /\ playbackStatus.currentAudioId # NoId

\* C4: every hotkey's assignment is empty or names a clip (type audio) or
\* a playlist (type playlist) that is in its store.
C4_HotkeysNameLiveItems ==
    \A h \in Slots :
        \/ hotkeys[h] = NoItem
        \/ hotkeys[h].type = "audio" /\ hotkeys[h].id \in DOMAIN audioFiles
        \/ hotkeys[h].type = "playlist" /\ hotkeys[h].id \in DOMAIN playlists

\* The engine plays clip from its headTrim in the store.
StartedFromHead(clip) ==
    /\ clip \in DOMAIN audioFiles
    /\ playbackStatus'.currentAudioId = clip
    /\ playbackStatus'.isPlaying
    /\ player'.src = clip
    /\ ~player'.paused
    /\ player'.currentTime = OrZero(audioFiles[clip].trimHead)

\* The session is Idle and the output halted.
StoppedAfter ==
    /\ IsIdle(playbackStatus')
    /\ ~playbackStatus'.isPlaying
    /\ player'.paused

\* The items of the current playlist (none when there is no such playlist)
CurrentItems ==
    IF playbackStatus.currentPlaylistId \in DOMAIN playlists
    THEN playlists[playbackStatus.currentPlaylistId].items
    ELSE << >>

\* C5: a completion in PlayingPlaylist(p, i) with i < len(p.items) - 1
\* moves the session to PlayingPlaylist(p, i + 1) and starts the clip of
\* item i + 1 from that clip's headTrim.
C5_CompletionAdvancesByOne ==
    [][(/\ lastEvent'.op \in Completions
        /\ playbackStatus.currentPlaylistId \in DOMAIN playlists
        /\ playbackStatus.currentPlaylistIndex < Len(CurrentItems) - 1)
       => /\ playbackStatus'.currentPlaylistId = playbackStatus.currentPlaylistId
          /\ playbackStatus'.currentPlaylistIndex
                = playbackStatus.currentPlaylistIndex + 1
          /\ StartedFromHead(
                CurrentItems[playbackStatus.currentPlaylistIndex + 2].audioId)]_vars

\* C6: a completion in PlayingPlaylist(p, i) at the last index with the
\* loop flag off moves the session to Idle, with the output halted.
C6_CompletionAtEndStops ==
    [][(/\ lastEvent'.op \in Completions
        /\ playbackStatus.currentPlaylistId \in DOMAIN playlists
        /\ playbackStatus.currentPlaylistIndex = Len(CurrentItems) - 1
        /\ ~playbackStatus.loop)
       => StoppedAfter]_vars

\* The second item of a playlist completed with the loop flag off.
C6_Witness ==
    /\ lastEvent.op \in Completions
    /\ lastEvent.pre.playlist \in DOMAIN playlists
    /\ lastEvent.pre.index = Len(playlists[lastEvent.pre.playlist].items) - 1
    /\ lastEvent.pre.index > 0
    /\ ~playbackStatus.loop
    /\ IsIdle(playbackStatus)
    /\ player.paused

\* C7: a completion in PlayingPlaylist(p, i) at the last index with the
\* loop flag on moves the session to PlayingPlaylist(p, 0) and starts the
\* first item's clip from that clip's headTrim.
C7_CompletionAtEndWraps ==
    [][(/\ lastEvent'.op \in Completions
        /\ playbackStatus.currentPlaylistId \in DOMAIN playlists
        /\ playbackStatus.currentPlaylistIndex = Len(CurrentItems) - 1
        /\ playbackStatus.loop)
       => /\ playbackStatus'.currentPlaylistId = playbackStatus.currentPlaylistId
          /\ playbackStatus'.currentPlaylistIndex = 0
          /\ StartedFromHead(CurrentItems[1].audioId)]_vars

\* C8: a completion in PlayingSingle(c) restarts c from its headTrim and
\* stays in PlayingSingle(c) when the loop flag is on, and moves the
\* session to Idle when it is off.
C8_CompletionOfSingle ==
    [][(lastEvent'.op \in Completions /\ InSingle(playbackStatus))
       => IF playbackStatus.loop
          THEN /\ InSingle(playbackStatus')
               /\ StartedFromHead(playbackStatus.currentAudioId)
          ELSE IsIdle(playbackStatus')]_vars

\* play(clip) hands the engine the clip, its volume, its headTrim as the
\* start offset and its tailTrim as the tail boundary.
PlayStartsClip ==
    \A a \in DOMAIN audioFiles :
        (lastEvent'.op = "play" /\ lastEvent'.arg = <<AudioItem(a)>>)
            => /\ InSingle(playbackStatus')
               /\ StartedFromHead(a)
               /\ player'.volume = audioFiles[a].volume
               /\ player'.currentTailTrim = OrZero(audioFiles[a].trimTail)
               /\ player'.currentDuration = audioFiles[a].duration

\* A time tick at output time t raises a completion exactly when the tail
\* boundary the engine holds is positive and t has reached duration minus
\* that boundary; the completion of a single clip without loop leaves the
\* session Idle and the output halted, and any other tick only reports t.
TickCompletesAtTail ==
    lastEvent'.op \in {"timeupdate", "tailReached"}
        => LET t == lastEvent'.arg[1]
               crossing ==
                   /\ player.currentTailTrim > 0
                   /\ t >= player.currentDuration - player.currentTailTrim
           IN /\ (lastEvent'.op = "tailReached") <=> crossing
              /\ (crossing /\ InSingle(playbackStatus) /\ ~playbackStatus.loop)
                    => StoppedAfter
              /\ ~crossing
                    => /\ ~player'.paused
                       /\ player'.currentTime = t
                       /\ playbackStatus'
                            = [playbackStatus EXCEPT !.elapsedTime = t]

\* C9: play(clip) starts the output at the clip's headTrim with its
\* volume; with a tail boundary > 0 the engine halts and raises the
\* completion at the first tick whose time is >= duration - tailTrim, and
\* with tailTrim = 0 no tick raises it (only the natural end does).
C9_PlayAndTailWatch ==
    [][PlayStartsClip /\ TickCompletesAtTail]_vars

\* A retrimmed clip (volume and trims off their defaults) played alone
\* was completed by the tick exactly at duration - tailTrim.
C9_Witness ==
    /\ lastEvent.op = "tailReached"
    /\ lastEvent.pre.playlist = NoId
    /\ lastEvent.pre.audio \in DOMAIN audioFiles
    /\ LET f == audioFiles[lastEvent.pre.audio]
       IN /\ OrZero(f.trimTail) > 0
          /\ OrZero(f.trimHead) > 0
          /\ f.volume # FullVolume
          /\ player.volume = f.volume
          /\ lastEvent.arg[1] = f.duration - f.trimTail
    /\ IsIdle(playbackStatus)
    /\ player.paused

\* C10: stop() from any state yields the Idle session (not playing, no
\* current clip, item or playlist, elapsed time 0, index 0), halts the
\* output and resets its position to 0, and leaves the loop flag and the
\* three stores unchanged.
C10_StopResetsSession ==
    [][lastEvent'.op = "stop"
       => /\ playbackStatus' =
                [isPlaying |-> FALSE, currentItem |-> NoItem,
                 currentAudioId |-> NoId, elapsedTime |-> 0,
                 currentPlaylistId |-> NoId, currentPlaylistIndex |-> 0,
                 loop |-> playbackStatus.loop]
          /\ player'.paused
          /\ player'.currentTime = 0
          /\ UNCHANGED storeVars]_vars

\* stop() ended a playlist session that was playing its second item with
\* the loop flag on.
C10_Witness ==
    /\ lastEvent.op = "stop"
    /\ lastEvent.pre.playlist \in DOMAIN playlists
    /\ lastEvent.pre.index > 0
    /\ lastEvent.pre.playing
    /\ playbackStatus.loop
    /\ IsIdle(playbackStatus)
    /\ player.paused
    /\ player.currentTime = 0

\* What play(item) reaches when item names a clip of the store or a
\* playlist of the store that has an item.
PlayReachesTarget(item) ==
    /\ (item.type = "audio" /\ item.id \in DOMAIN audioFiles)
          => /\ InSingle(playbackStatus')
             /\ playbackStatus'.currentAudioId = item.id
             /\ playbackStatus'.currentPlaylistId = NoId
             /\ playbackStatus'.currentPlaylistIndex = 0
             /\ playbackStatus'.isPlaying
             /\ playbackStatus'.currentItem = item
    /\ (/\ item.type = "playlist"
        /\ item.id \in DOMAIN playlists
        /\ Len(playlists[item.id].items) > 0)
          => /\ playbackStatus'.currentPlaylistId = item.id
             /\ playbackStatus'.currentPlaylistIndex = 0
             /\ playbackStatus'.currentAudioId
                   = playlists[item.id].items[1].audioId
             /\ playbackStatus'.isPlaying
             /\ playbackStatus'.currentItem = item

\* C11: play(target) from any state makes the session PlayingSingle(clip)
\* (no playlist, index 0) for a clip of the store and PlayingPlaylist(p, 0)
\* on the first item's clip for a playlist of the store with at least one
\* item; in both cases the session is playing and currentItem is the
\* target.
C11_PlayReachesTarget ==
    [][lastEvent'.op = "play" => PlayReachesTarget(lastEvent'.arg[1])]_vars

\* C12: play(playlist) on a playlist of the store that has no item leaves
\* every session field and the engine output as they were, whatever the
\* session was (Idle, PlayingSingle or PlayingPlaylist).
C12_PlayEmptyPlaylistNoOp ==
    [][(/\ lastEvent'.op = "play"
        /\ lastEvent'.arg[1].type = "playlist"
        /\ lastEvent'.arg[1].id \in DOMAIN playlists
        /\ playlists[lastEvent'.arg[1].id].items = << >>)
       => UNCHANGED <<playbackStatus, player>>]_vars

\* play(p) was called while the session was playing p itself, emptied
\* under it, and the session goes on as it was.
C12_Witness ==
    /\ lastEvent.op = "play"
    /\ lastEvent.arg[1].type = "playlist"
    /\ lastEvent.arg[1].id \in DOMAIN playlists
    /\ playlists[lastEvent.arg[1].id].items = << >>
    /\ lastEvent.pre.playlist = lastEvent.arg[1].id
    /\ lastEvent.pre.playing
    /\ playbackStatus.isPlaying
    /\ playbackStatus.currentPlaylistId = lastEvent.arg[1].id
    /\ ~player.paused

\* C13: play(target) with a target that names no clip of the clip store,
\* or no playlist of the playlist store, leaves the whole session and the
\* engine output unchanged and raises nothing.
C13_PlayMissingTargetNoOp ==
    [][(/\ lastEvent'.op = "play"
        /\ \/ /\ lastEvent'.arg[1].type = "audio"
              /\ lastEvent'.arg[1].id \notin DOMAIN audioFiles
           \/ /\ lastEvent'.arg[1].type = "playlist"
              /\ lastEvent'.arg[1].id \notin DOMAIN playlists)
       => /\ UNCHANGED <<playbackStatus, player>>
          /\ ~lastEvent'.threw]_vars

\* The handlers the session runs on a command or on a completion.
SessionHandlers == Completions \cup {"next", "previous", "play"}

\* C14: handling a completion, next(), previous() or play() never raises,
\* in any reachable state, an active playlist shortened or emptied under
\* a running session with the loop flag on included.
C14_HandlersNeverThrow ==
    lastEvent.op \in SessionHandlers => ~lastEvent.threw

\* C15: next() in PlayingPlaylist(p, i) with i the last index changes no
\* session field and neither restarts nor repositions the output, with
\* the loop flag on or off.
C15_NextAtLastIndexNoOp ==
    [][(/\ lastEvent'.op = "next"
        /\ playbackStatus.currentPlaylistId \in DOMAIN playlists
        /\ playbackStatus.currentPlaylistIndex = Len(CurrentItems) - 1)
       => UNCHANGED <<playbackStatus, player>>]_vars

\* next() was called on the second, last item of a playlist playing past
\* its start with the loop flag on, and the output stays where it was.
C15_Witness ==
    /\ lastEvent.op = "next"
    /\ lastEvent.pre.playlist \in DOMAIN playlists
    /\ lastEvent.pre.index = Len(playlists[lastEvent.pre.playlist].items) - 1
    /\ lastEvent.pre.index > 0
    /\ lastEvent.pre.playing
    /\ playbackStatus.loop
    /\ playbackStatus.isPlaying
    /\ playbackStatus.currentPlaylistIndex = lastEvent.pre.index
    /\ player.currentTime > 0

\* C16: previous() in PlayingPlaylist(p, 0) changes no session field and
\* neither restarts nor repositions the output.
C16_PreviousAtFirstIndexNoOp ==
    [][(/\ lastEvent'.op = "previous"
        /\ playbackStatus.currentPlaylistId \in DOMAIN playlists
        /\ playbackStatus.currentPlaylistIndex = 0)
       => UNCHANGED <<playbackStatus, player>>]_vars

\* previous() was called on the first item of a playing two-item
\* playlist, which goes on playing.
C16_Witness ==
    /\ lastEvent.op = "previous"
    /\ lastEvent.pre.playlist \in DOMAIN playlists
    /\ Len(playlists[lastEvent.pre.playlist].items) > 1
    /\ lastEvent.pre.index = 0
    /\ lastEvent.pre.playing
    /\ playbackStatus.isPlaying
    /\ playbackStatus.currentPlaylistId = lastEvent.pre.playlist
    /\ playbackStatus.currentPlaylistIndex = 0
    /\ ~player.paused
    /\ player.currentTime > 0

\* C17: next() and previous() with no active playlist (session Idle or
\* PlayingSingle) change no session field and do not touch the output.
C17_SkipWithoutPlaylistNoOp ==
    [][(/\ lastEvent'.op \in {"next", "previous"}
        /\ playbackStatus.currentPlaylistId = NoId)
       => UNCHANGED <<playbackStatus, player>>]_vars

\* previous() was called while a single clip was playing, and the clip
\* plays on.
C17_Witness ==
    /\ lastEvent.op = "previous"
    /\ lastEvent.pre.playlist = NoId
    /\ lastEvent.pre.audio # NoId
    /\ lastEvent.pre.playing
    /\ InSingle(playbackStatus)
    /\ playbackStatus.isPlaying
    /\ ~player.paused
    /\ player.currentTime > 0

\* The session moved to index k (0-based) of the playlist it was in, and
\* the clip of that item plays from its headTrim.
SkippedTo(k) ==
    /\ playbackStatus'.currentPlaylistId = playbackStatus.currentPlaylistId
    /\ playbackStatus'.currentPlaylistIndex = k
    /\ k + 1 \in 1 .. Len(CurrentItems)
    /\ StartedFromHead(CurrentItems[k + 1].audioId)

\* C18: next() at a non-last index and previous() at a non-zero index of
\* PlayingPlaylist(p, i) move the session to index i + 1 / i - 1 of p and
\* start that item's clip from its headTrim, playing even if the session
\* was paused, whatever the loop flag.
C18_SkipMovesByOne ==
    [][/\ (/\ lastEvent'.op = "next"
           /\ playbackStatus.currentPlaylistId \in DOMAIN playlists
           /\ playbackStatus.currentPlaylistIndex < Len(CurrentItems) - 1)
          => SkippedTo(playbackStatus.currentPlaylistIndex + 1)
       /\ (/\ lastEvent'.op = "previous"
           /\ playbackStatus.currentPlaylistId \in DOMAIN playlists
           /\ playbackStatus.currentPlaylistIndex > 0)
          => SkippedTo(playbackStatus.currentPlaylistIndex - 1)]_vars

\* What deletePlaylist(id) must leave behind.
DeletedPlaylistGone(id) ==
    /\ DOMAIN playlists' = DOMAIN playlists \ {id}
    /\ \A p \in DOMAIN playlists' : playlists'[p] = playlists[p]
    /\ \A h \in Slots :
          hotkeys'[h] = IF hotkeys[h] = PlaylistItemRef(id) THEN NoItem
                        ELSE hotkeys[h]
    /\ audioFiles' = audioFiles
    /\ playbackStatus.currentPlaylistId = id => StoppedAfter

\* C19: after deletePlaylist(id) the playlist is gone from the store,
\* every hotkey assigned to it is cleared, the clips, the other playlists
\* and the other hotkeys are unchanged, and the session is Idle with the
\* output halted if id was the active playlist.
C19_DeletePlaylistCascades ==
    [][lastEvent'.op = "deletePlaylist"
       => DeletedPlaylistGone(lastEvent'.arg[1])]_vars

\* The playing playlist was deleted while another playlist with an item,
\* assigned to a hotkey, stayed.
C19_Witness ==
    /\ lastEvent.op = "deletePlaylist"
    /\ lastEvent.pre.playlist = lastEvent.arg[1]
    /\ lastEvent.pre.playing
    /\ IsIdle(playbackStatus)
    /\ player.paused
    /\ \E p \in DOMAIN playlists :
          /\ Len(playlists[p].items) > 0
          /\ \E h \in Slots : hotkeys[h] = PlaylistItemRef(p)

\* pause() halts the output where it is and clears isPlaying only.
PauseHalts ==
    lastEvent'.op = "pause"
        => /\ playbackStatus' = [playbackStatus EXCEPT !.isPlaying = FALSE]
           /\ player' = [player EXCEPT !.paused = TRUE]

\* resume() with a current clip restarts that clip at the recorded elapsed
\* time with the tailTrim the clip has in the store, and sets isPlaying
\* only; in Idle it does nothing.
ResumeRestarts ==
    lastEvent'.op = "resume"
        => IF playbackStatus.currentAudioId = NoId
           THEN UNCHANGED <<playbackStatus, player>>
           ELSE LET clip == playbackStatus.currentAudioId
                IN /\ clip \in DOMAIN audioFiles
                   /\ playbackStatus'
                         = [playbackStatus EXCEPT !.isPlaying = TRUE]
                   /\ player'.src = clip
                   /\ ~player'.paused
                   /\ player'.currentTime = playbackStatus.elapsedTime
                   /\ player'.currentTailTrim
                         = OrZero(audioFiles[clip].trimTail)

\* C20: pause() sets isPlaying to false and halts the output, leaving the
\* current clip, item, playlist, index, elapsed time and loop flag; a
\* following resume() restarts the same clip at the recorded elapsed time
\* with the clip's current tailTrim from the store, sets isPlaying to true
\* and leaves the same fields; resume() in Idle does nothing.
C20_PauseAndResume ==
    [][PauseHalts /\ ResumeRestarts]_vars

\* A paused, retrimmed clip of a playlist was resumed past its headTrim,
\* with its tailTrim of the store as the engine's tail boundary.
C20_Witness ==
    /\ lastEvent.op = "resume"
    /\ ~lastEvent.pre.playing
    /\ lastEvent.pre.audio \in DOMAIN audioFiles
    /\ lastEvent.pre.playlist \in DOMAIN playlists
    /\ playbackStatus.isPlaying
    /\ playbackStatus.currentAudioId = lastEvent.pre.audio
    /\ playbackStatus.currentPlaylistId = lastEvent.pre.playlist
    /\ ~player.paused
    /\ LET f == audioFiles[lastEvent.pre.audio]
       IN /\ OrZero(f.trimTail) > 0
          /\ player.currentTailTrim = f.trimTail
          /\ player.currentTime > OrZero(f.trimHead)
          /\ player.currentTime = playbackStatus.elapsedTime

\* The trim setters as lastEvent names them.
Retrims == {"setHeadTrim", "setTailTrim", "handleSave"}

\* C21: after a retrim (setTailTrim, setHeadTrim, or both back-to-back in
\* one save) of the session's active clip, the tail boundary the engine's
\* tail watch uses equals the clip's tailTrim in the clip store.
C21_RetrimKeepsTailBoundary ==
    [][(/\ lastEvent'.op \in Retrims
        /\ playbackStatus.currentAudioId = lastEvent'.arg[1]
        /\ lastEvent'.arg[1] \in DOMAIN audioFiles)
       => player'.currentTailTrim
             = OrZero(audioFiles'[lastEvent'.arg[1]].trimTail)]_vars

\* setHeadTrim on the active clip (alone or as the first call of a save)
\* seeks forward to the clip's new headTrim of the store, and only forward.
HeadRetrimSeeksForward ==
    (/\ lastEvent'.op \in {"setHeadTrim", "handleSave"}
     /\ playbackStatus.currentAudioId = lastEvent'.arg[1]
     /\ lastEvent'.arg[1] \in DOMAIN audioFiles)
        => LET newHeadTrim == OrZero(audioFiles'[lastEvent'.arg[1]].trimHead)
           IN /\ player'.currentTime
                    = IF player.currentTime < newHeadTrim THEN newHeadTrim
                      ELSE player.currentTime
              /\ player'.src = player.src
              /\ player'.paused = player.paused

\* A retrim of a clip that is not the active clip leaves the engine alone.
OtherRetrimSparesEngine ==
    (/\ lastEvent'.op \in Retrims
     /\ playbackStatus.currentAudioId # lastEvent'.arg[1])
        => player' = player

\* C22: setHeadTrim on the active clip seeks the engine to the new clamped
\* headTrim exactly when the engine's position is below it and otherwise
\* leaves the position unchanged (never backward); setHeadTrim or
\* setTailTrim on a clip that is not the active clip never touches the
\* engine.
C22_HeadRetrimSeeksForwardOnly ==
    [][HeadRetrimSeeksForward /\ OtherRetrimSparesEngine]_vars

\* setHeadTrim raised the head of the playing clip past the position the
\* output had reached, and the output was moved up to the new headTrim.
C22_Witness ==
    /\ lastEvent.op = "setHeadTrim"
    /\ lastEvent.pre.audio = lastEvent.arg[1]
    /\ lastEvent.pre.playing
    /\ lastEvent.arg[1] \in DOMAIN audioFiles
    /\ audioFiles[lastEvent.arg[1]].trimHead > 0
    /\ player.currentTime = audioFiles[lastEvent.arg[1]].trimHead
    /\ playbackStatus.elapsedTime > 0
    /\ playbackStatus.elapsedTime < player.currentTime
    /\ ~player.paused

\* C23: whenever the engine is outputting the active clip, its output
\* position is at or after that clip's current headTrim of the store
\* (after play, resume, next/previous, loop restart, seek, live retrim).
C23_OutputNotBeforeHead ==
    (/\ ~player.paused
     /\ playbackStatus.currentAudioId # NoId
     /\ playbackStatus.currentAudioId \in DOMAIN audioFiles
     /\ player.src = playbackStatus.currentAudioId)
        => player.currentTime
              >= OrZero(audioFiles[playbackStatus.currentAudioId].trimHead)

\* C24: a completion event delivered after the session it belonged to has
\* moved on (after stop(), after deletion of the active clip or playlist,
\* after a new play/next/previous started another clip) changes neither
\* the session state nor the engine output.
C24_LateCompletionIgnored ==
    [][(/\ lastEvent'.op = "ended"
        /\ player.pendingEnded # NoId
        /\ playbackStatus.currentAudioId # player.pendingEnded)
       => /\ playbackStatus' = playbackStatus
          /\ player' = [player EXCEPT !.pendingEnded = NoId]]_vars

\* stop() and pause() leave the output halted on the clip it had loaded:
\* nothing is restarted and no other item is started.
HaltStartsNothing ==
    lastEvent'.op \in {"stop", "pause"}
        => /\ player'.paused
           /\ ~playbackStatus'.isPlaying
           /\ player'.src = player.src
           /\ playbackStatus'.currentAudioId \in {playbackStatus.currentAudioId, NoId}
           /\ playbackStatus'.currentPlaylistIndex
                 \in {playbackStatus.currentPlaylistIndex, 0}
           /\ ~lastEvent'.threw

\* A completion is raised from a running output only: by a time tick on or
\* past the tail boundary the engine holds, or by the media's natural end.
CompletionNeedsOutput ==
    lastEvent'.op \in Completions
        => /\ ~player.paused
           /\ lastEvent.op \notin {"stop", "pause"}
           /\ lastEvent'.op = "tailReached"
                 => /\ player.currentTailTrim > 0
                    /\ lastEvent'.arg[1]
                          >= player.currentDuration - player.currentTailTrim

\* C25: neither stop() nor pause() raises a completion: a completion is
\* raised only by the tail-watch crossing on a time tick or by the media
\* reaching its natural end, so a stop or pause never triggers
\* auto-advance or loop restart.
C25_HaltRaisesNoCompletion ==
    [][HaltStartsNothing /\ CompletionNeedsOutput]_vars

\* stop() ended a session playing the first of two items of a playlist
\* with the loop flag on, and nothing plays afterwards.
C25_Witness ==
    /\ lastEvent.op = "stop"
    /\ lastEvent.pre.playing
    /\ lastEvent.pre.playlist \in DOMAIN playlists
    /\ Len(playlists[lastEvent.pre.playlist].items) > 1
    /\ lastEvent.pre.index = 0
    /\ playbackStatus.loop
    /\ ~playbackStatus.isPlaying
    /\ player.paused
    /\ player.src = lastEvent.pre.audio

\* setLoop(b) writes the loop flag and nothing else.
SetLoopWritesLoopOnly ==
    lastEvent'.op = "setLoop"
        => /\ playbackStatus' = [playbackStatus EXCEPT !.loop = lastEvent'.arg[1]]
           /\ player' = player
           /\ UNCHANGED storeVars

\* C26: the loop flag is changed only by setLoop: play, stop, pause,
\* resume, next, previous, completions, time ticks, deletions and retrims
\* leave it unchanged, and setLoop changes no other session field and
\* does not affect the engine output.
C26_LoopChangedBySetLoopOnly ==
    [][/\ lastEvent'.op # "setLoop"
          => playbackStatus'.loop = playbackStatus.loop
       /\ SetLoopWritesLoopOnly]_vars

\* The loop flag, switched on during a playlist session, outlived the
\* stop that a deletion of the active clip made.
C26_Witness ==
    /\ lastEvent.op = "deleteAudioFile"
    /\ lastEvent.pre.audio = lastEvent.arg[1]
    /\ lastEvent.pre.playlist # NoId
    /\ lastEvent.pre.playing
    /\ playbackStatus = IdleStatus(TRUE)

\* The edits of a playlist's items.
PlaylistEdits == {"addToPlaylist", "removeFromPlaylist", "reorderPlaylistItem"}

\* C27: reorderPlaylistItem, removeFromPlaylist and addToPlaylist applied
\* to the active playlist leave every session field and the engine output
\* unchanged; the index stays positional and does not follow the item.
C27_EditsSpareSession ==
    [][(/\ lastEvent'.op \in PlaylistEdits
        /\ playbackStatus.currentPlaylistId \in DOMAIN playlists
        /\ playlists'[playbackStatus.currentPlaylistId]
              # playlists[playbackStatus.currentPlaylistId])
       => UNCHANGED <<playbackStatus, player>>]_vars

\* The second item of the playing playlist, playing past its start, was
\* moved up: the session still has index 1, where another clip now sits.
C27_Witness ==
    /\ lastEvent.op = "reorderPlaylistItem"
    /\ lastEvent.arg[1] = 1
    /\ lastEvent.arg[2] = 0
    /\ lastEvent.pre.playing
    /\ playbackStatus.isPlaying
    /\ playbackStatus.currentPlaylistId \in DOMAIN playlists
    /\ playbackStatus.currentPlaylistIndex = 1
    /\ Len(CurrentItems) > 1
    /\ CurrentItems[1].audioId = playbackStatus.currentAudioId
    /\ CurrentItems[2].audioId # playbackStatus.currentAudioId
    /\ ~player.paused
    /\ player.currentTime > 0

\* The slot the step addressed becomes item; the other slots, the clip
\* and playlist stores and the session stay.
SlotWritten(item) ==
    /\ \A s \in Slots :
          hotkeys'[s] = IF s = <<lastEvent'.arg[1], lastEvent'.arg[2]>>
                        THEN item ELSE hotkeys[s]
    /\ UNCHANGED <<audioFiles, playlists, playbackStatus, player>>

\* C28: assignToHotkey(bank, position, target) sets that slot's assignment
\* to target whatever it held before, clearHotkey(bank, position) empties
\* it, and both leave every other slot, the clip and playlist stores and
\* the session unchanged.
C28_AssignAndClearWriteOneSlot ==
    [][/\ lastEvent'.op = "assignToHotkey" => SlotWritten(lastEvent'.arg[3])
       /\ lastEvent'.op = "clearHotkey" => SlotWritten(NoItem)]_vars

\* A slot was assigned a playlist during a running session started from
\* the other assigned slot, which still names its clip.
C28_Witness ==
    /\ lastEvent.op = "assignToHotkey"
    /\ <<lastEvent.arg[1], lastEvent.arg[2]>> = <<NUM_BANKS, HOTKEYS_PER_BANK>>
    /\ hotkeys[<<NUM_BANKS, HOTKEYS_PER_BANK>>].type = "playlist"
    /\ hotkeys[<<1, HOTKEYS_PER_BANK>>].type = "audio"
    /\ lastEvent.pre.playing
    /\ playbackStatus.isPlaying
    /\ playbackStatus.currentAudioId = hotkeys[<<1, HOTKEYS_PER_BANK>>].id

\* C29: the hotkey grid always holds exactly banks x slotsPerBank (6 x 24)
\* entries, one for each bank 1..6 and position 1..24; no operation adds
\* or removes an entry, and an assign or clear addressed outside the grid
\* changes nothing.
C29_GridIsFixed ==
    [][/\ DOMAIN hotkeys' = (1 .. NUM_BANKS) \X (1 .. HOTKEYS_PER_BANK)
       /\ Cardinality(DOMAIN hotkeys') = NUM_BANKS * HOTKEYS_PER_BANK
       /\ (/\ lastEvent'.op \in {"assignToHotkey", "clearHotkey"}
           /\ <<lastEvent'.arg[1], lastEvent'.arg[2]>> \notin Slots)
             => hotkeys' = hotkeys]_vars

\* An assignment addressed to bank 7, position 25 was made while a slot
\* of the grid held an item, and that slot still holds it.
C29_Witness ==
    /\ lastEvent.op = "assignToHotkey"
    /\ lastEvent.arg[1] = NUM_BANKS + 1
    /\ lastEvent.arg[2] = HOTKEYS_PER_BANK + 1
    /\ hotkeys[<<NUM_BANKS, HOTKEYS_PER_BANK>>] # NoItem
    /\ DOMAIN hotkeys = Slots

\* The item ids of every playlist of the store.
AllItemIds ==
    UNION {ItemIdsOf(playlists[p].items) : p \in DOMAIN playlists}

\* addToPlaylist(p, clip) appends one item of clip with a new id to p.
AddAppendsOne ==
    lastEvent'.op = "addToPlaylist"
        => \E p \in DOMAIN playlists :
              /\ Len(playlists'[p].items) = Len(playlists[p].items) + 1
              /\ SubSeq(playlists'[p].items, 1, Len(playlists[p].items))
                    = playlists[p].items
              /\ LET new == playlists'[p].items[Len(playlists'[p].items)]
                 IN /\ new.audioId = lastEvent'.arg[1]
                    /\ new.id \notin AllItemIds
              /\ \A q \in DOMAIN playlists \ {p} : playlists'[q] = playlists[q]

\* removeFromPlaylist(p, itemId) drops the one item with that id.
RemoveDropsOne ==
    lastEvent'.op = "removeFromPlaylist"
        => \E p \in DOMAIN playlists :
              /\ lastEvent'.arg[1] \in ItemIdsOf(playlists[p].items)
              /\ Len(playlists'[p].items) = Len(playlists[p].items) - 1
              /\ playlists'[p].items
                    = SelectSeq(playlists[p].items,
                                LAMBDA it : it.id # lastEvent'.arg[1])
              /\ \A q \in DOMAIN playlists \ {p} : playlists'[q] = playlists[q]

\* C30: every addToPlaylist(p, clip) appends exactly one item at the end
\* of p with an itemId distinct from every other item's, even when the
\* clip is already in p; removeFromPlaylist(p, itemId) removes exactly the
\* item with that itemId and keeps all other items, other occurrences of
\* the same clip included, in their relative order.
C30_AddAppendsRemoveDropsOne ==
    [][AddAppendsOne /\ RemoveDropsOne]_vars

\* A clip the playlist held already was added once more, behind another
\* clip, under a new item id.
C30_Witness ==
    /\ lastEvent.op = "addToPlaylist"
    /\ \E p \in DOMAIN playlists :
          LET items == playlists[p].items
          IN /\ Len(items) = 3
             /\ items[3].audioId = lastEvent.arg[1]
             /\ items[1].audioId = items[3].audioId
             /\ items[2].audioId # items[3].audioId
             /\ Cardinality(ItemIdsOf(items)) = 3

ImportCallbacks ==
    {"handleFileChange", "fileReaderLoad", "fileReaderError",
     "loadedMetadata", "audioError"}

\* A decoded file adds one clip under a fresh id with no trim and full
\* volume, and leaves the clips of the store as they were.
DecodedFileAddsOneClip ==
    lastEvent'.op = "loadedMetadata"
        => LET id == lastEvent'.arg[2]
           IN /\ id \notin DOMAIN audioFiles
              /\ DOMAIN audioFiles' = DOMAIN audioFiles \cup {id}
              /\ \A a \in DOMAIN audioFiles : audioFiles'[a] = audioFiles[a]
              /\ audioFiles'[id].trimHead = 0
              /\ audioFiles'[id].trimTail = 0
              /\ audioFiles'[id].volume = FullVolume

\* A file that fails, or any other step of the batch, adds nothing, and a
\* failure leaves the other files of the batch where they stand.
FailedFileAddsNothing ==
    /\ lastEvent'.op \in ImportCallbacks \ {"loadedMetadata"}
          => audioFiles' = audioFiles
    /\ lastEvent'.op \in {"fileReaderError", "audioError"}
          => /\ importBatch'[lastEvent'.arg[1]].stage = "rejected"
             /\ \A g \in DOMAIN importBatch \ {lastEvent'.arg[1]} :
                   importBatch'[g] = importBatch[g]

\* A file that decodes can always be added, whatever became of the others.
DecodableNeverBlocked ==
    \A f \in DOMAIN importBatch :
        importBatch[f].stage = "decoding" /\ importBatch[f].kind = "audio"
            => \E d \in PlayDurations : ENABLED LoadedMetadata(f, d)

\* Once every file has settled: each decodable audio file has its own clip
\* in the store, untrimmed and at full volume, and no other file has one.
SettledBatchAddedDecodable(batch, files) ==
    BatchSettled(batch)
        => /\ \A f \in DOMAIN batch :
                IF batch[f].kind = "audio"
                THEN /\ batch[f].stage = "resolved"
                     /\ batch[f].clip \in DOMAIN files
                     /\ files[batch[f].clip].trimHead = 0
                     /\ files[batch[f].clip].trimTail = 0
                     /\ files[batch[f].clip].volume = FullVolume
                ELSE /\ batch[f].stage \in {"rejected", "skipped"}
                     /\ batch[f].clip = NoId
           /\ \A f, g \in DOMAIN batch :
                 batch[f].kind = "audio" /\ batch[g].kind = "audio" /\ f # g
                    => batch[f].clip # batch[g].clip

\* C31: in a batch import whose file callbacks resolve in any order, a
\* file that fails to decode or is not an audio type adds no clip and
\* does not prevent any other file of the batch from being added: when
\* all callbacks have resolved, the store has gained exactly one clip
\* (trim 0, volume 1, fresh id) per decodable audio file.
C31_BatchImportAddsDecodable ==
    [][/\ DecodedFileAddsOneClip
       /\ FailedFileAddsNothing
       /\ DecodableNeverBlocked
       /\ SettledBatchAddedDecodable(importBatch', audioFiles')]_vars

\* A batch of three has settled: the second file failed to decode, and
\* the third was added before the first, whose callback came last.
C31_Witness ==
    /\ Len(importBatch) = 3
    /\ BatchSettled(importBatch)
    /\ importBatch[2].kind = "corrupt"
    /\ importBatch[2].stage = "rejected"
    /\ importBatch[1].stage = "resolved"
    /\ importBatch[3].stage = "resolved"
    /\ importBatch[3].clip < importBatch[1].clip
    /\ lastEvent.op = "loadedMetadata"
    /\ lastEvent.arg[1] = 1

\* What is left of a clip between its trims, a missing trim counting as 0.
UntrimmedLength(f) ==
    f.duration - (IF f.trimHead = Undef THEN 0 ELSE f.trimHead)
               - (IF f.trimTail = Undef THEN 0 ELSE f.trimTail)

\* C32: getEffectiveDuration(clip) equals
\* max(0, totalDuration - headTrim - tailTrim) for every clip, treats a
\* missing trim as 0, is computed from the clip's current fields on every
\* call (so it reflects the latest retrim), and is never negative.
C32_EffectiveDuration ==
    \A a \in DOMAIN audioFiles :
        /\ getEffectiveDuration(audioFiles[a]) >= 0
        /\ getEffectiveDuration(audioFiles[a]) =
              IF UntrimmedLength(audioFiles[a]) > 0
              THEN UntrimmedLength(audioFiles[a]) ELSE 0

\* After a mutation of the clip store: one clip whose trims exceed its
\* duration, with effective duration 0, and one with a missing head trim
\* and a positive effective duration.
C32_Witness ==
    /\ lastEvent.op \in ClipMutations
    /\ \E a \in DOMAIN audioFiles :
          /\ UntrimmedLength(audioFiles[a]) < 0
          /\ getEffectiveDuration(audioFiles[a]) = 0
    /\ \E a \in DOMAIN audioFiles :
          /\ audioFiles[a].trimHead = Undef
          /\ getEffectiveDuration(audioFiles[a]) > 0

\* max(0, min(s, limit))
Clamped(s, limit) ==
    IF s <= limit THEN (IF s >= 0 THEN s ELSE 0)
    ELSE (IF limit >= 0 THEN limit ELSE 0)

MissingAsZero(trim) == IF trim = Undef THEN 0 ELSE trim

\* The clip after setHeadTrim / setTailTrim with s seconds.
HeadSetTo(f, s) ==
    [f EXCEPT !.trimHead =
        Clamped(s, f.duration - MissingAsZero(f.trimTail) - Eps)]

TailSetTo(f, s) ==
    [f EXCEPT !.trimTail =
        Clamped(s, f.duration - MissingAsZero(f.trimHead) - Eps)]

\* What a trim setter called with (id, s) must leave behind, Set being
\* HeadSetTo or TailSetTo.
TrimSetterPost(id, s, Set(_, _)) ==
    IF id \in DOMAIN audioFiles
    THEN /\ DOMAIN audioFiles' = DOMAIN audioFiles
         /\ \A a \in DOMAIN audioFiles \ {id} : audioFiles'[a] = audioFiles[a]
         /\ (audioFiles[id].duration >= Eps /\ TrimsWithin(audioFiles[id]))
                => audioFiles'[id] = Set(audioFiles[id], s)
    ELSE UNCHANGED <<audioFiles, playlists, hotkeys, playbackStatus, player>>

\* C33: for a clip with totalDuration >= 0.1 that satisfies the trim
\* invariant, setHeadTrim(id, s) sets headTrim to
\* max(0, min(s, totalDuration - tailTrim - 0.1)) and setTailTrim(id, s)
\* sets tailTrim to max(0, min(s, totalDuration - headTrim - 0.1)); each
\* leaves the other trim, the clip's other fields and every other clip
\* unchanged, and a call with an unknown id changes nothing.
C33_TrimSettersClamp ==
    [][/\ lastEvent'.op = "setHeadTrim"
          => TrimSetterPost(lastEvent'.arg[1], lastEvent'.arg[2], HeadSetTo)
       /\ lastEvent'.op = "setTailTrim"
          => TrimSetterPost(lastEvent'.arg[1], lastEvent'.arg[2], TailSetTo)]_vars

\* setTailTrim past the clip's end was clamped to the margin left by a
\* head trim of 1, next to a second clip of the store.
C33_Witness ==
    /\ lastEvent.op = "setTailTrim"
    /\ lastEvent.arg[1] \in DOMAIN audioFiles
    /\ lastEvent.arg[2] = 3
    /\ audioFiles[lastEvent.arg[1]].duration = 3
    /\ audioFiles[lastEvent.arg[1]].trimHead = 1
    /\ audioFiles[lastEvent.arg[1]].trimTail = 1
    /\ Cardinality(DOMAIN audioFiles) = 2

\* A sequence without its k-th entry.
Without(seq, k) == SubSeq(seq, 1, k - 1) \o SubSeq(seq, k + 1, Len(seq))

\* after is before with the entry at oldIndex moved to newIndex (indices
\* from 0): the same entries, the others in their relative order.
MovedTo(before, after, oldIndex, newIndex) ==
    /\ Len(after) = Len(before)
    /\ after[newIndex + 1] = before[oldIndex + 1]
    /\ Without(after, newIndex + 1) = Without(before, oldIndex + 1)

\* C34: reorderPlaylistItem(p, oldIndex, newIndex) yields a permutation of
\* p.items (same items, same length) in which the item formerly at
\* oldIndex is at newIndex and the others keep their relative order; for
\* an out-of-range index or an unknown playlist it changes nothing and
\* never inserts an empty entry.
C34_ReorderIsPermutation ==
    [][lastEvent'.op = "reorderPlaylistItem"
       => LET oldIndex == lastEvent'.arg[1]
              newIndex == lastEvent'.arg[2]
              p == lastEvent'.arg[3]
          IN IF /\ p \in DOMAIN playlists
                /\ oldIndex \in 0 .. Len(playlists[p].items) - 1
                /\ newIndex \in 0 .. Len(playlists[p].items) - 1
             THEN /\ DOMAIN playlists' = DOMAIN playlists
                  /\ \A q \in DOMAIN playlists \ {p} :
                        playlists'[q] = playlists[q]
                  /\ playlists'[p] =
                        [playlists[p] EXCEPT !.items = playlists'[p].items]
                  /\ MovedTo(playlists[p].items, playlists'[p].items,
                             oldIndex, newIndex)
             ELSE playlists' = playlists]_vars

InPlaylist(ps) == ps.currentPlaylistId # NoId

\* A completion in a playlist session without loop starts the item after
\* the session's index, or ends the session at the last index.
CompletionStartsNextOnly ==
    (/\ lastEvent'.op \in Completions
     /\ InPlaylist(playbackStatus)
     /\ ~playbackStatus.loop
     /\ playbackStatus.currentPlaylistId \in DOMAIN playlists)
    => LET items == playlists[playbackStatus.currentPlaylistId].items
           index == playbackStatus.currentPlaylistIndex
       IN IF index < Len(items) - 1
          THEN /\ playbackStatus'.currentPlaylistIndex = index + 1
               /\ playbackStatus'.currentPlaylistId
                     = playbackStatus.currentPlaylistId
               /\ playbackStatus'.currentAudioId = items[index + 2].audioId
               /\ player'.src = items[index + 2].audioId
               /\ ~player'.paused
          ELSE /\ IsIdle(playbackStatus')
               /\ player'.paused

\* C35: from any PlayingPlaylist(p, i) state with loop off, if no further
\* user command arrives and every started clip eventually raises a
\* completion, the session eventually becomes Idle, after starting the
\* items at indices i+1 .. len(p.items)-1 once each in increasing order.
C35_PlaylistRunsToIdle ==
    /\ [][CompletionStartsNextOnly]_vars
    /\ (InPlaylist(playbackStatus) /\ ~playbackStatus.loop)
          ~> IsIdle(playbackStatus)

\* C36: in every reachable state the session record is well-formed:
\* no active clip implies not playing, no current item, no active
\* playlist, index 0 and elapsed time 0; and playing implies an active
\* clip.
C36_SessionWellFormed ==
    /\ playbackStatus.currentAudioId = NoId
          => /\ ~playbackStatus.isPlaying
             /\ playbackStatus.currentItem = NoItem
             /\ playbackStatus.currentPlaylistId = NoId
             /\ playbackStatus.currentPlaylistIndex = 0
             /\ playbackStatus.elapsedTime = 0
    /\ playbackStatus.isPlaying => playbackStatus.currentAudioId # NoId

\* C37: whenever the session is PlayingPlaylist(p, i), the index is in
\* range (0 <= i < len(p.items)) and the item at index i refers to the
\* active clip, after any interleaving of play, next, previous,
\* completion, add/remove/reorder of items and clip deletion.
C37_IndexNamesActiveClip ==
    InPlaylist(playbackStatus)
        => /\ playbackStatus.currentPlaylistId \in DOMAIN playlists
           /\ playbackStatus.currentPlaylistIndex
                 \in 0 .. Len(CurrentItems) - 1
           /\ CurrentItems[playbackStatus.currentPlaylistIndex + 1].audioId
                 = playbackStatus.currentAudioId

\* The clip a completion must start in the session it finds, NoId when it
\* must stop: the next item, the first item or the same clip under the
\* loop flag.
CompletionTarget ==
    IF playbackStatus.currentPlaylistId \in DOMAIN playlists
    THEN IF playbackStatus.currentPlaylistIndex < Len(CurrentItems) - 1
         THEN CurrentItems[playbackStatus.currentPlaylistIndex + 2].audioId
         ELSE IF playbackStatus.loop /\ Len(CurrentItems) > 0
         THEN CurrentItems[1].audioId
         ELSE NoId
    ELSE IF playbackStatus.loop THEN playbackStatus.currentAudioId
    ELSE NoId

CompletionTargetIndex ==
    IF playbackStatus.currentPlaylistId \in DOMAIN playlists
       /\ playbackStatus.currentPlaylistIndex < Len(CurrentItems) - 1
    THEN playbackStatus.currentPlaylistIndex + 1
    ELSE 0

\* C38: when a completion event restarts a clip (loop) or advances to the
\* next item, the started clip's start offset and tail boundary equal
\* that clip's headTrim and tailTrim in the store at the moment the
\* completion is handled, and the handler uses the session's current
\* index and loop flag, even if a retrim, setLoop or playlist edit
\* happened after the last time tick.
C38_CompletionReadsCurrentState ==
    [][(lastEvent'.op \in Completions /\ ~lastEvent'.threw)
       => IF CompletionTarget \in DOMAIN audioFiles
          THEN /\ player'.src = CompletionTarget
               /\ ~player'.paused
               /\ playbackStatus'.currentAudioId = CompletionTarget
               /\ playbackStatus'.currentPlaylistIndex = CompletionTargetIndex
               /\ player'.currentTime
                     = OrZero(audioFiles[CompletionTarget].trimHead)
               /\ player'.currentTailTrim
                     = OrZero(audioFiles[CompletionTarget].trimTail)
          ELSE player'.paused]_vars

Modes == {"follow-on", "manual"}

\* The playlists with their modes replaced by the assignment m.
WithModes(pls, m) ==
    [p \in DOMAIN pls |-> [pls[p] EXCEPT !.playbackMode = m[p]]]

\* What the event op(arg) does to the session and the engine in the
\* current state when the playlists are pls.
SessionEffect(op, arg, pls) ==
    LET e0 == Eff(playbackStatus, player)
    IN CASE op = "play" -> play(e0, pls, audioFiles, arg[1])
         [] op = "stop" -> stop(e0)
         [] op = "pause" -> pause(e0)
         [] op = "resume" -> resume(e0, playbackStatus, audioFiles)
         [] op = "next" -> next(e0, playbackStatus, pls, audioFiles)
         [] op = "previous" -> previous(e0, playbackStatus, pls, audioFiles)
         [] op = "setLoop" -> setLoop(e0, arg[1])
         [] op = "ended" ->
              handleAudioEnded(
                  Eff(playbackStatus,
                      [player EXCEPT !.paused = TRUE,
                                     !.currentTime = player.currentDuration]),
                  playbackStatus, pls, handlerFiles)
         [] op \in {"timeupdate", "tailReached"} ->
              LET pl1 == [player EXCEPT !.currentTime = arg[1]]
                  e1 == handleTimeUpdate(Eff(playbackStatus, pl1), arg[1])
              IN IF TailReached(pl1)
                 THEN handleAudioEnded([e1 EXCEPT !.pl = playerStop(pl1)],
                                       playbackStatus, pls, handlerFiles)
                 ELSE e1
         [] OTHER -> e0

\* C39: a playlist's continuation mode (playbackMode) never influences a
\* session transition: whatever modes the playlists of the current state
\* are given, every command and completion event produces the session
\* state and the engine state the step produced, so two runs that differ
\* only in the modes stay equal in session and engine step by step; the
\* mode button itself and the library edits leave session and engine
\* alone.
C39_ModeNeverInfluencesSession ==
    [][\A m \in [DOMAIN playlists -> Modes] :
          LET e == SessionEffect(lastEvent'.op, lastEvent'.arg,
                                 WithModes(playlists, m))
          IN /\ playbackStatus' = e.ps
             /\ player' = e.pl
             /\ lastEvent'.threw = e.threw]_vars

\* A completion has advanced a playlist whose mode is manual.
C39_Witness ==
    /\ lastEvent.op \in Completions
    /\ playbackStatus.currentPlaylistId \in DOMAIN playlists
    /\ playlists[playbackStatus.currentPlaylistId].playbackMode = "manual"
    /\ lastEvent.pre.playlist = playbackStatus.currentPlaylistId
    /\ playbackStatus.isPlaying
    /\ playbackStatus.currentPlaylistIndex = lastEvent.pre.index + 1

====
